---- MODULE Spec2Model ----
(***************************************************************************)
(* State-machine model of the two Playwright scrapers                      *)
(*   scripts/facebook/scraper.py  (FacebookScraper)                        *)
(*   scripts/tiktok/scraper.py    (TikTokScraper)                          *)
(* and of the helpers of scripts/common/base_scraper.py they use.          *)
(*                                                                         *)
(* One behaviour is one call of scrape().  The browser (the "surface") is  *)
(* the environment: every awaited page/context/browser operation either    *)
(* completes with a value drawn from a small set or raises.  pc is the     *)
(* position of the scrape coroutine.                                       *)
(***************************************************************************)
EXTENDS Integers, Sequences, FiniteSets, TLC

(***************************************************************************)
(* Bounds of the model                                                     *)
(***************************************************************************)
\* max_iterations argument of _expand_comments (the scrapers pass the default)
MaxIterations == 32
\* largest number of rendered items the surface ever reports
MaxCount == 12
\* largest number of buttons one enumeration returns
MaxButtons == 6
\* largest number of candidate items one extraction pass sees
MaxItems == 3
\* largest number of indicators present in one session snapshot
MaxIndicators == 2

(***************************************************************************)
(* Program constants                                                       *)
(***************************************************************************)
FbStallThreshold == 8
FbWarmUp == 30
FbLivenessEvery == 10
FbClickCap == 3
FbReplyRounds == 30
FbReplyLivenessEvery == 5
FbReplyClickCap == 5
FbMinTarget == 10
TargetPercent == 85
TtStallThreshold == 10
TtWarmUp == 15
TtReplyRounds == 10
max_wait == 300
PollSeconds == 2
TtSettleSeconds == 3

(***************************************************************************)
(* Values                                                                  *)
(***************************************************************************)
NoError == "None"

\* no helper function was called on its own
NoCall == [fn |-> "none", arg |-> <<>>, result |-> <<>>]

\* the page's reply-expand buttons: those never clicked, those clicked once
\* (they carry the mark), those clicked more than once, and how many marked
\* ones the last round saw and passed over
NoButtons == [fresh |-> 0, once |-> 0, again |-> 0, skipped |-> 0]

\* no scrape task has been scheduled
NoTasks == <<>>

\* how an awaited surface operation ends
Outcomes == {"ok", "target_closed", "failed"}

\* item counts the surface can report: an empty list, or a few values around
\* the early-stop threshold of the targets below
Counts == {0} \cup ((MaxCount - 2)..MaxCount)

\* a count query that raised
CountFailed == -1

VARIABLES
    platform,          \* "facebook" | "tiktok"
    url,               \* the url argument of scrape
    remeasured,        \* the count the stall route of the step just taken
                       \*   measured after its jump to the bottom, as a
                       \*   one-item list; empty when the step measured none
    cookie_io,         \* outcome of the cookie read or write made by the step
                       \*   just taken; "none" when it made none
    pc,                \* position of the scrape coroutine
    error,             \* ScrapeResult.error
    post_set,          \* ScrapeResult.post was assigned by _extract_post_data
    comments,          \* ScrapeResult.comments (the list being built)
    modal,             \* FacebookScraper._modal is not None
    modal_seen,        \* history: _wait_for_post_modal found a modal during
                       \*          the scrape call in progress
    using_cdp,         \* TikTok: attached to a running browser
    elapsed,           \* session guard: time.time() - start, in seconds
    captcha_required,  \* TikTok session guard local
    last_status,       \* TikTok session guard local
    iteration,         \* expansion loop index
    last_count,
    no_change_count,
    clicks,            \* expand clicks of the current tick (TikTok: the buttons
                       \*   its click script found visible)
    target_comments,
    is_modal,
    exit_reason,       \* how the expansion loop ended
    round_num,         \* reply expansion round
    expanded,          \* reply-expand clicks of the last round
    reply_buttons,     \* TikTok: the reply-expand buttons of the page, counted
                       \*   by what the reply script did to them
    articles,          \* number of candidate items the extraction pass found
    raw_comments,      \* TikTok: the list page.evaluate returned
    idx,               \* extraction loop position
    comment_index,     \* Facebook: _extract_comments local
    max_comments,      \* TikTok scrape argument (0 stands for None)
    include_replies,   \* TikTok scrape argument
    authenticated,     \* history: the session guard reported a valid session
    login_wait,        \* history: the wait-for-login loop: none, waiting,
                       \*          passed or timed_out
    expand_done,       \* history: the main expansion loop has ended
    dead_at,           \* history: first stage whose liveness check failed
    dead_items,        \* history: count held when the expansion loop saw death
    parse_hist,        \* history: how many candidates of the extraction pass
                       \*          failed in parsing, and how many were accepted
                       \*          after the first of them
    no_author_seen,    \* history: the extraction pass met an item with text
                       \*          and no author
    call,              \* a helper function called on its own: its name, its
                       \*          argument and what it returned
    tasks,             \* two scrape tasks of one event loop: for each its
                       \*          scraper, its position and its page
    pages              \* the open pages of the running Chrome's context

flowVars == <<platform, url, cookie_io, remeasured, pc, error, post_set, comments, modal, modal_seen, using_cdp>>
flowVarsButPc == <<call, tasks, pages, url, platform, error, post_set, comments, modal, modal_seen, using_cdp>>
guardVars == <<elapsed, captcha_required, last_status>>
expandVars == <<iteration, last_count, no_change_count, clicks,
                target_comments, is_modal, exit_reason>>
replyVars == <<round_num, expanded, reply_buttons>>
extractVars == <<articles, raw_comments, idx, comment_index, max_comments, include_replies>>
histVars == <<authenticated, login_wait, expand_done, dead_at, dead_items,
              no_author_seen, parse_hist>>
scrapeVars == <<flowVars, guardVars, expandVars, replyVars, extractVars,
                histVars>>
vars == <<scrapeVars, call, tasks, pages>>

(***************************************************************************)
(* Helpers shared by both scrapers                                         *)
(***************************************************************************)
\* str(e) as scrape's handler stores it (facebook rewrites "Target ... closed")
ErrorOf(outcome) ==
    IF outcome = "target_closed" THEN "Target closed" ELSE "Exception"

\* the first liveness failure is remembered
MarkDead(stage) == IF dead_at = "none" THEN stage ELSE dead_at

\* C1, changed code: a loop that goes on whatever its index is
LoopContinuesAlways(i, n) == TRUE

\* for ... in range(n): the loop body runs while the index is below n
LoopContinues(i, n) == i < n

\* C11, changed code: a count that did not grow extends the streak
NextStreakNoGrowth(current, previous, streak) ==
    IF current <= previous THEN streak + 1 ELSE 0

\* "Track changes": the streak of ticks whose count equals the one before
NextStreak(current, previous, streak) ==
    IF current = previous THEN streak + 1 ELSE 0

\* C12, changed code: the wait loop does not look at the clock
GuardWaitsAlways(spent) == TRUE

\* `while time.time() - start < max_wait` of both wait-for-login loops
GuardWaits(spent) == spent < max_wait

\* lists of n buttons, all visible expand buttons
AllExpand(n) == [i \in 1..n |-> "expand"]

\* button enumerations: visible matching buttons ("expand"), with at most one
\* button that is hidden or does not match ("other") or whose handling raises
ButtonLists ==
    {AllExpand(n) : n \in 0..MaxButtons}
    \cup UNION {{[AllExpand(n) EXCEPT ![p] = k] :
                    p \in 1..n, k \in {"other", "raises"}} : n \in 1..MaxButtons}

\* the click loop over an enumeration: a button is clicked when it is visible,
\* matches and nothing raises; the loop breaks when `cap` clicks were made
RECURSIVE ClickLoop(_, _, _)
ClickLoop(buttons, done, cap) ==
    IF buttons = <<>> THEN done
    ELSE IF Head(buttons) = "expand"
         THEN IF done + 1 >= cap THEN done + 1
              ELSE ClickLoop(Tail(buttons), done + 1, cap)
         ELSE ClickLoop(Tail(buttons), done, cap)

\* the click counts the click loop can end with, over every enumeration
ClickCounts(cap) == {ClickLoop(buttons, 0, cap) : buttons \in ButtonLists}

\* BaseScraper.create_user: id falls back to username
CreateUser(user_id, username, display_name) ==
    [id |-> IF user_id # "" THEN user_id ELSE username,
     username |-> username,
     display_name |-> IF display_name # "" THEN display_name ELSE username]

\* C7, changed code: a comment equal in text and user id to one already in
\* the list is dropped
AppendCommentOnce(list, comment) ==
    IF \E i \in 1..Len(list) :
          list[i].text = comment.text /\ list[i].user.id = comment.user.id
    THEN list
    ELSE Append(list, comment)

\* comments.append(comment_obj)
AppendComment(list, comment) == Append(list, comment)

\* BaseScraper.create_comment; raw is the candidate the record was built from
CreateComment(index, text, user, raw) ==
    [index |-> index, text |-> text, user |-> user, raw |-> raw]

\* BaseScraper.clean_text on a text given as its words: whitespace is collapsed
\* by the representation, one trailing see-more/see-less affordance is removed
Affordances == {"Ver mas", "See more", "Ver menos", "See less"}
CleanText(text) ==
    IF text # <<>> /\ text[Len(text)] \in Affordances
    THEN SubSeq(text, 1, Len(text) - 1)
    ELSE text

(***************************************************************************)
(* Initial state: scrape() has just been called on a fresh scraper         *)
(***************************************************************************)
\* the TikTok URLs given to scrape: without "/video/", with nothing after
\* it, with an id
Urls == {[has_video |-> FALSE, id |-> ""],
         [has_video |-> TRUE, id |-> ""],
         [has_video |-> TRUE, id |-> "7532"]}

\* the Facebook URLs given to scrape, by the identifier pattern they match:
\* a share link matches none of them
FbPatterns == {"fbid=", "/posts/", "/posts/pfbid", "/photo", "story_fbid="}
FbUrls == {[pattern |-> "none", id |-> ""],
           [pattern |-> "/posts/", id |-> "1234"]}

\* _extract_post_id: the group of the pattern the URL matches, or ""
FbExtractPostId(u) == IF u.pattern \in FbPatterns THEN u.id ELSE ""

\* no candidate failed in parsing yet
NoFailure == [failed |-> 0, kept_after |-> 0]

\* the history of the extraction pass after one more candidate
ParseHist(hist, failed, accepted) ==
    IF failed THEN [hist EXCEPT !.failed = @ + 1]
    ELSE IF accepted /\ hist.failed > 0 THEN [hist EXCEPT !.kept_after = @ + 1]
    ELSE hist

Init ==
    /\ platform \in {"facebook", "tiktok"}
    /\ url \in (IF platform = "facebook" THEN FbUrls ELSE Urls)
    /\ pc = "start"
    /\ cookie_io = "none"
    /\ remeasured = <<>>
    /\ error = NoError
    /\ post_set = FALSE
    /\ comments = <<>>
    /\ modal = FALSE
    /\ modal_seen = FALSE
    /\ using_cdp = FALSE
    /\ elapsed = 0
    /\ captcha_required = FALSE
    /\ last_status = ""
    /\ iteration = 0
    /\ last_count = 0
    /\ no_change_count = 0
    /\ clicks = 0
    /\ target_comments = 0
    /\ is_modal = FALSE
    /\ exit_reason = "none"
    /\ round_num = 0
    /\ expanded = 0
    /\ reply_buttons = NoButtons
    /\ articles = 0
    /\ raw_comments = <<>>
    /\ idx = 0
    /\ comment_index = 0
    /\ max_comments = 0
    /\ include_replies = TRUE
    /\ authenticated = FALSE
    /\ login_wait = "none"
    /\ expand_done = FALSE
    /\ dead_at = "none"
    /\ dead_items = 0
    /\ no_author_seen = FALSE
    /\ parse_hist = NoFailure
    /\ call = NoCall
    /\ tasks = NoTasks
    /\ pages = <<>>

(***************************************************************************)
(* FacebookScraper.scrape: browser, navigation, session guard              *)
(***************************************************************************)
\* the message scrape's handler stores for an exception
FbErrorOf(outcome) ==
    IF outcome = "target_closed" THEN "Browser closed unexpectedly"
    ELSE "Exception"

\* Option 1: attach over CDP; any failure falls through to Option 2
FbConnect ==
    /\ platform = "facebook" /\ pc = "start"
    /\ \E attached \in BOOLEAN :
         pc' = IF attached THEN "fb_new_page" ELSE "fb_launch"
    /\ cookie_io' = "none"
    /\ remeasured' = <<>>
    /\ UNCHANGED <<call, tasks, pages, url, platform, error, post_set, comments, modal, modal_seen, using_cdp>>
    /\ UNCHANGED <<guardVars, expandVars, replyVars, extractVars, histVars>>

\* C17, changed code: a cookie failure is not swallowed
CookiesFatal(outcome, next) == IF outcome = "ok" THEN next ELSE "raised"

\* where scrape goes after _load_cookies or _save_cookies: both wrap their
\* whole body in try/except Exception and only print
AfterCookies(outcome, next) == next

\* Option 2: launch and new_context are not guarded; _load_cookies is
FbLaunch ==
    /\ pc = "fb_launch"
    /\ \E launch \in Outcomes, cookies \in Outcomes :
         IF launch = "ok"
         THEN /\ pc' = AfterCookies(cookies, "fb_new_page")
              /\ cookie_io' = cookies
              /\ remeasured' = <<>>
         ELSE /\ pc' = "raised"
              /\ cookie_io' = "none"
              /\ remeasured' = <<>>
    /\ UNCHANGED <<call, tasks, pages, url, platform, error, post_set, comments, modal, modal_seen, using_cdp>>
    /\ UNCHANGED <<guardVars, expandVars, replyVars, extractVars, histVars>>

\* page = await context.new_page(), not guarded
FbNewPage ==
    /\ pc = "fb_new_page"
    /\ \E new_page \in Outcomes :
         pc' = IF new_page = "ok" THEN "fb_goto" ELSE "raised"
    /\ cookie_io' = "none"
    /\ remeasured' = <<>>
    /\ UNCHANGED <<call, tasks, pages, url, platform, error, post_set, comments, modal, modal_seen, using_cdp>>
    /\ UNCHANGED <<guardVars, expandVars, replyVars, extractVars, histVars>>

\* goto + wait + _wait_for_post_modal inside try/except: when goto or the wait
\* raises, modal detection does not run and _modal keeps its value
FbGotoModal(next) ==
    /\ \E goto \in BOOLEAN :
         IF goto
         THEN \E found \in BOOLEAN :
                 modal' = found /\ modal_seen' = (modal_seen \/ found)
         ELSE modal' = modal /\ modal_seen' = modal_seen
    /\ pc' = next

FbNavigate ==
    /\ pc = "fb_goto"
    /\ FbGotoModal("fb_check_login")
    /\ cookie_io' = "none"
    /\ remeasured' = <<>>
    /\ UNCHANGED <<call, tasks, pages, url, platform, error, post_set, comments, using_cdp>>
    /\ UNCHANGED <<guardVars, expandVars, replyVars, extractVars, histVars>>

\* _is_logged_in on a snapshot of the page: a login form wins, then a
\* logged-in indicator, then a login URL; nothing at all counts as logged in;
\* an exception counts as not logged in
FbSnapshots == SUBSET {"login_form", "logged_indicator", "login_url"}
FbIsLoggedIn(snapshot, raised) ==
    IF raised THEN FALSE
    ELSE IF "login_form" \in snapshot THEN FALSE
    ELSE IF "logged_indicator" \in snapshot THEN TRUE
    ELSE IF "login_url" \in snapshot THEN FALSE
    ELSE TRUE

\* C6, changed code: scrape goes on whatever _is_logged_in answered
FbLoginGateOpen(logged) == "fb_save_cookies"

\* where scrape goes after its first _is_logged_in
FbLoginGate(logged) == IF logged THEN "fb_save_cookies" ELSE "fb_login_goto"

FbCheckLogin ==
    /\ pc = "fb_check_login"
    /\ \E snapshot \in FbSnapshots, raised \in BOOLEAN :
         LET logged == FbIsLoggedIn(snapshot, raised) IN
         /\ pc' = FbLoginGate(logged)
         /\ authenticated' = logged
    /\ cookie_io' = "none"
    /\ remeasured' = <<>>
    /\ UNCHANGED <<call, tasks, pages, url, platform, error, post_set, comments, modal, modal_seen, using_cdp>>
    /\ UNCHANGED <<guardVars, expandVars, replyVars, extractVars>>
    /\ UNCHANGED <<login_wait, expand_done, dead_at, dead_items, no_author_seen, parse_hist>>

\* _wait_for_login: page.goto(login) is not guarded; the clock starts
FbLoginGoto ==
    /\ pc = "fb_login_goto"
    /\ \E goto \in Outcomes :
         pc' = IF goto = "ok" THEN "fb_login_poll" ELSE "raised"
    /\ elapsed' = 0
    /\ login_wait' = "waiting"
    /\ cookie_io' = "none"
    /\ remeasured' = <<>>
    /\ UNCHANGED <<call, tasks, pages, url, platform, error, post_set, comments, modal, modal_seen, using_cdp>>
    /\ UNCHANGED <<captcha_required, last_status>>
    /\ UNCHANGED <<expandVars, replyVars, extractVars>>
    /\ UNCHANGED <<authenticated, expand_done, dead_at, dead_items, no_author_seen, parse_hist>>

\* one pass of `while time.time() - start < max_wait`: _is_logged_in (which
\* waits 2 s unless it raised first), then on failure another 2 s wait, which
\* is not guarded; _save_cookies swallows its own failures
\* the stage scrape enters on the value _wait_for_login returned: after a
\* login it loads the post's URL again, after a timeout it gives up
FbAfterGuard(passed) ==
    IF passed THEN "fb_renavigate" ELSE "fb_login_failed"

FbLoginPoll ==
    /\ pc = "fb_login_poll"
    /\ IF GuardWaits(elapsed)
       THEN \E snapshot \in FbSnapshots, raised \in BOOLEAN, waited \in BOOLEAN,
               wait \in Outcomes :
              LET logged == FbIsLoggedIn(snapshot, raised)
                  spent == IF raised /\ ~waited THEN 0 ELSE PollSeconds
              IN IF logged
                 THEN \E cookies \in Outcomes :
                      /\ pc' = AfterCookies(cookies, FbAfterGuard(TRUE))
                      /\ cookie_io' = cookies
                      /\ remeasured' = <<>>
                      /\ authenticated' = TRUE
                      /\ login_wait' = "passed"
                      /\ elapsed' = 0
                 ELSE /\ pc' = IF wait = "ok" THEN "fb_login_poll" ELSE "raised"
                      /\ cookie_io' = "none"
                      /\ remeasured' = <<>>
                      /\ authenticated' = authenticated
                      /\ login_wait' = login_wait
                      /\ elapsed' = elapsed + spent + PollSeconds
       ELSE /\ pc' = FbAfterGuard(FALSE)
            /\ cookie_io' = "none"
            /\ remeasured' = <<>>
            /\ authenticated' = authenticated
            /\ login_wait' = "timed_out"
            /\ elapsed' = 0
    /\ UNCHANGED <<call, tasks, pages, url, platform, error, post_set, comments, modal, modal_seen, using_cdp>>
    /\ UNCHANGED <<captcha_required, last_status>>
    /\ UNCHANGED <<expandVars, replyVars, extractVars>>
    /\ UNCHANGED <<expand_done, dead_at, dead_items, no_author_seen, parse_hist>>

\* login timeout: context.close() is not guarded, then error is set
FbLoginFailed ==
    /\ pc = "fb_login_failed"
    /\ \E close \in Outcomes :
         IF close = "ok"
         THEN pc' = "returned" /\ error' = "Login required"
         ELSE pc' = "raised" /\ error' = error
    /\ cookie_io' = "none"
    /\ remeasured' = <<>>
    /\ UNCHANGED <<call, tasks, pages, url, platform, post_set, comments, modal, modal_seen, using_cdp>>
    /\ UNCHANGED <<guardVars, expandVars, replyVars, extractVars, histVars>>

\* after a manual login scrape goes back to the post URL
FbRenavigate ==
    /\ pc = "fb_renavigate"
    /\ FbGotoModal("fb_save_cookies")
    /\ cookie_io' = "none"
    /\ remeasured' = <<>>
    /\ UNCHANGED <<call, tasks, pages, url, platform, error, post_set, comments, using_cdp>>
    /\ UNCHANGED <<guardVars, expandVars, replyVars, extractVars, histVars>>

\* await self._save_cookies(context): failures are swallowed
FbSaveCookies ==
    /\ pc = "fb_save_cookies"
    /\ \E cookies \in Outcomes :
         /\ pc' = AfterCookies(cookies, "fb_pre_check")
         /\ cookie_io' = cookies
         /\ remeasured' = <<>>
    /\ UNCHANGED <<call, tasks, pages, url, platform, error, post_set, comments, modal, modal_seen, using_cdp>>
    /\ UNCHANGED <<guardVars, expandVars, replyVars, extractVars, histVars>>

\* first statements of the guarded block: a 3 s wait, then the liveness
\* check; on a dead page error is set and the context closed inside the try
FbPreCheck ==
    /\ pc = "fb_pre_check"
    /\ \E wait \in Outcomes :
         IF wait # "ok"
         THEN /\ error' = FbErrorOf(wait)
              /\ pc' = "fb_close"
              /\ dead_at' = dead_at
         ELSE \E alive \in BOOLEAN :
                IF alive
                THEN /\ error' = error
                     /\ pc' = "fb_prepare"
                     /\ dead_at' = dead_at
                ELSE \E close \in Outcomes :
                       /\ dead_at' = MarkDead("pre_check")
                       /\ IF close = "ok"
                          THEN /\ error' = "Page not accessible"
                               /\ pc' = "returned"
                          ELSE /\ error' = FbErrorOf(close)
                               /\ pc' = "fb_close"
    /\ cookie_io' = "none"
    /\ remeasured' = <<>>
    /\ UNCHANGED <<call, tasks, pages, url, platform, post_set, comments, modal, modal_seen, using_cdp>>
    /\ UNCHANGED <<guardVars, expandVars, replyVars, extractVars>>
    /\ UNCHANGED <<authenticated, login_wait, expand_done, dead_items, no_author_seen, parse_hist>>

\* _get_comment_count_from_page: the numbers the two patterns match in the
\* body text, separators removed, in match order; the first above 10 wins
MatchValues == {FbMinTarget, FbMinTarget + 4}
MatchLists ==
    {<<>>} \cup {<<a>> : a \in MatchValues}
    \cup {<<a, b>> : a \in MatchValues, b \in MatchValues}

RECURSIVE CommentCountFromPage(_)
CommentCountFromPage(matches) ==
    IF matches = <<>> THEN 0
    ELSE IF Head(matches) > FbMinTarget THEN Head(matches)
    ELSE CommentCountFromPage(Tail(matches))

\* the locals of _expand_comments when the loop is not running
ExpandIdle ==
    /\ iteration' = 0
    /\ last_count' = 0
    /\ no_change_count' = 0
    /\ clicks' = 0
    /\ target_comments' = 0
    /\ is_modal' = FALSE

\* an exception leaves _expand_comments and reaches scrape's handler
FbExpandRaises(outcome) ==
    /\ ExpandIdle
    /\ exit_reason' = "raised"
    /\ error' = FbErrorOf(outcome)
    /\ pc' = "fb_close"

\* popups, the wait for the comments section, the filter (each swallows its
\* failures but for two waits), then the prologue of _expand_comments
FbPrepare ==
    /\ pc = "fb_prepare"
    /\ \E wait \in Outcomes :
         IF wait # "ok"
         THEN /\ error' = FbErrorOf(wait)
              /\ pc' = "fb_close"
              /\ UNCHANGED expandVars
         ELSE \E matches \in MatchLists, raised \in BOOLEAN :
                /\ target_comments' =
                       IF raised THEN 0 ELSE CommentCountFromPage(matches)
                /\ iteration' = 0
                /\ last_count' = 0
                /\ no_change_count' = 0
                /\ clicks' = 0
                /\ is_modal' = modal
                /\ error' = error
                /\ IF LoopContinues(0, MaxIterations)
                   THEN pc' = "fb_tick" /\ exit_reason' = "none"
                   ELSE pc' = "fb_expanded" /\ exit_reason' = "ceiling"
    /\ cookie_io' = "none"
    /\ remeasured' = <<>>
    /\ UNCHANGED <<call, tasks, pages, url, platform, post_set, comments, modal, modal_seen, using_cdp>>
    /\ UNCHANGED <<guardVars, replyVars, extractVars, histVars>>

(***************************************************************************)
(* FacebookScraper._expand_comments: one tick in two steps                 *)
(***************************************************************************)
\* C25, changed code: the health check runs on every 5th iteration
FbLivenessDueEveryFifth(i) == i > 0 /\ i % 5 = 0

\* the health check runs on every 10th iteration but the first
FbLivenessDue(i) == i > 0 /\ i % FbLivenessEvery = 0

\* first half of a tick: health check, scroll (guarded), a 300 ms wait (not
\* guarded), the expand-button loop (guarded)
FbTickScrollClick ==
    /\ pc = "fb_tick"
    /\ \E alive \in (IF FbLivenessDue(iteration) THEN BOOLEAN ELSE {TRUE}) :
         IF ~alive
         THEN /\ pc' = "fb_expanded"
              /\ exit_reason' = "dead"
              /\ dead_at' = MarkDead("expand")
              /\ dead_items' = last_count
              /\ expand_done' = TRUE
              /\ error' = error
              /\ UNCHANGED <<iteration, last_count, no_change_count, clicks,
                             target_comments, is_modal>>
         ELSE \E wait \in Outcomes :
                IF wait # "ok"
                THEN /\ FbExpandRaises(wait)
                     /\ UNCHANGED <<dead_at, dead_items, expand_done>>
                ELSE \E made \in ClickCounts(FbClickCap) \cup {0} :
                       /\ clicks' = made
                       /\ pc' = "fb_count"
                       /\ error' = error
                       /\ UNCHANGED <<iteration, last_count, no_change_count,
                                      target_comments, is_modal, exit_reason>>
                       /\ UNCHANGED <<dead_at, dead_items, expand_done>>
    /\ cookie_io' = "none"
    /\ remeasured' = <<>>
    /\ UNCHANGED <<call, tasks, pages, url, platform, post_set, comments, modal, modal_seen, using_cdp>>
    /\ UNCHANGED <<guardVars, replyVars, extractVars>>
    /\ UNCHANGED <<authenticated, login_wait, no_author_seen, parse_hist>>

\* C10, changed code: the threshold is cut down to a whole number first
FbTargetReachedFloor(current, target) ==
    target > 0 /\ current >= (target * TargetPercent) \div 100

\* the early-stop test against the page's own total
FbTargetReached(current, target) ==
    target > 0 /\ current * 100 >= target * TargetPercent

\* C36, changed code: the stall test does not look at the tick's clicks
FbStalledWithClicks(tick_clicks, streak) == streak >= FbStallThreshold

\* the stall test that triggers the jump to the bottom
FbStalled(tick_clicks, streak) ==
    tick_clicks = 0 /\ streak >= FbStallThreshold

\* the loop ends, normally, with the tick's count and streak recorded
FbLoopEnds(reason, current, streak) ==
    /\ pc' = "fb_expanded"
    /\ exit_reason' = reason
    /\ expand_done' = TRUE
    /\ error' = error
    /\ last_count' = current
    /\ no_change_count' = streak
    /\ UNCHANGED <<iteration, clicks, target_comments, is_modal>>

\* the end of a tick that did not break: the target test, the 150 ms wait
\* (not guarded), and the next value of range(max_iterations)
FbTickTail(current, streak) ==
    IF FbTargetReached(current, target_comments)
    THEN FbLoopEnds("target", current, streak)
    ELSE \E wait \in Outcomes :
           IF wait # "ok"
           THEN FbExpandRaises(wait) /\ expand_done' = expand_done
           ELSE /\ last_count' = current
                /\ no_change_count' = streak
                /\ iteration' = iteration + 1
                /\ error' = error
                /\ UNCHANGED <<target_comments, is_modal>>
                /\ IF LoopContinues(iteration + 1, MaxIterations)
                   THEN /\ pc' = "fb_tick"
                        /\ clicks' = 0
                        /\ UNCHANGED <<exit_reason, expand_done>>
                   ELSE /\ pc' = "fb_expanded"
                        /\ clicks' = clicks
                        /\ exit_reason' = "ceiling"
                        /\ expand_done' = TRUE

\* C23, changed code: the stall route stops whatever it measured again
FbStallStopsUnmeasured(new_count, current, i) == i > FbWarmUp

\* `if new_count == current and iteration > 30: break`
FbStallStops(new_count, current, i) == new_count = current /\ i > FbWarmUp

\* second half of a tick: count (guarded: a failure keeps last_count), the
\* streak, the stall route with its re-measure (not guarded), the target route
FbTickCountExit ==
    /\ pc = "fb_count"
    /\ \E counted \in Counts \cup {CountFailed} :
         LET current == IF counted = CountFailed THEN last_count ELSE counted
             streak == NextStreak(current, last_count, no_change_count)
         IN IF FbStalled(clicks, streak)
            THEN \E jump \in Outcomes, new_count \in Counts :
                   IF jump # "ok"
                   THEN /\ FbExpandRaises(jump)
                        /\ expand_done' = expand_done
                        /\ remeasured' = <<>>
                   ELSE /\ remeasured' = <<new_count>>
                        /\ IF FbStallStops(new_count, current, iteration)
                           THEN FbLoopEnds("stall", current, streak)
                           ELSE FbTickTail(current, streak)
            ELSE /\ remeasured' = <<>>
                 /\ FbTickTail(current, streak)
    /\ cookie_io' = "none"
    /\ UNCHANGED <<call, tasks, pages, url, platform, post_set, comments, modal, modal_seen, using_cdp>>
    /\ UNCHANGED <<guardVars, replyVars, extractVars>>
    /\ UNCHANGED <<authenticated, login_wait, dead_at, dead_items, no_author_seen, parse_hist>>

(***************************************************************************)
(* FacebookScraper.scrape after the expansion; _extract_comments           *)
(***************************************************************************)
\* "Check if page is still open before extracting": post data is extracted
\* (every part of it swallows its failures) or error is set
FbPostExpand ==
    /\ pc = "fb_expanded"
    /\ ExpandIdle
    /\ exit_reason' = "none"
    /\ \E alive \in BOOLEAN :
         IF alive
         THEN /\ post_set' = TRUE
              /\ pc' = "fb_extract_start"
              /\ error' = error
              /\ dead_at' = dead_at
         ELSE /\ post_set' = post_set
              /\ pc' = "fb_close"
              /\ error' = "Page closed unexpectedly"
              /\ dead_at' = MarkDead("post_expand")
    /\ cookie_io' = "none"
    /\ remeasured' = <<>>
    /\ UNCHANGED <<call, tasks, pages, url, platform, comments, modal, modal_seen, using_cdp>>
    /\ UNCHANGED <<guardVars, replyVars, extractVars>>
    /\ UNCHANGED <<authenticated, login_wait, expand_done, dead_items, no_author_seen, parse_hist>>

\* _extract_comments up to the reply expansion: two liveness checks around
\* the (guarded) see-more clicks
FbExtractStart ==
    /\ pc = "fb_extract_start"
    /\ \E alive \in BOOLEAN :
         IF ~alive
         THEN /\ pc' = "fb_close"
              /\ dead_at' = MarkDead("extract_start")
         ELSE \E still_alive \in BOOLEAN :
                IF still_alive
                THEN /\ pc' = "fb_reply_round"
                     /\ dead_at' = dead_at
                ELSE /\ pc' = "fb_articles"
                     /\ dead_at' = MarkDead("extract_mid")
    /\ comments' = <<>>
    /\ comment_index' = 0
    /\ round_num' = 0
    /\ expanded' = 0
    /\ reply_buttons' = NoButtons
    /\ cookie_io' = "none"
    /\ remeasured' = <<>>
    /\ UNCHANGED <<call, tasks, pages, url, platform, error, post_set, modal, modal_seen, using_cdp>>
    /\ UNCHANGED <<guardVars, expandVars>>
    /\ UNCHANGED <<articles, raw_comments, idx, max_comments, include_replies>>
    /\ UNCHANGED <<authenticated, login_wait, expand_done, dead_items, no_author_seen, parse_hist>>

\* the health check of _expand_all_replies runs on every 5th round but the first
FbReplyLivenessDue(r) == r > 0 /\ r % FbReplyLivenessEvery = 0

\* one round of _expand_all_replies: health check, the click loop (an
\* enumeration failure breaks), stop on a round without clicks, else
\* scroll (guarded) and a 300 ms wait (not guarded: the exception is caught
\* by _extract_comments, which returns the comments it has)
FbReplyRound ==
    /\ pc = "fb_reply_round"
    /\ \E alive \in (IF FbReplyLivenessDue(round_num) THEN BOOLEAN ELSE {TRUE}) :
         IF ~alive
         THEN /\ pc' = "fb_replied"
              /\ dead_at' = MarkDead("replies")
              /\ UNCHANGED <<round_num, expanded>>
         ELSE \E made \in ClickCounts(FbReplyClickCap) \cup {0} :
                   /\ dead_at' = dead_at
                   /\ expanded' = made
                   /\ IF made = 0
                      THEN pc' = "fb_replied" /\ round_num' = round_num
                      ELSE \E wait \in BOOLEAN :
                             IF ~wait
                             THEN pc' = "fb_close" /\ round_num' = round_num
                             ELSE /\ round_num' = round_num + 1
                                  /\ pc' = IF LoopContinues(round_num + 1,
                                                            FbReplyRounds)
                                           THEN "fb_reply_round"
                                           ELSE "fb_replied"
    /\ reply_buttons' = reply_buttons
    /\ cookie_io' = "none"
    /\ remeasured' = <<>>
    /\ UNCHANGED <<flowVarsButPc, guardVars, expandVars, extractVars>>
    /\ UNCHANGED <<authenticated, login_wait, expand_done, dead_items, no_author_seen, parse_hist>>

\* back in _extract_comments: a 2 s wait; a failure is caught by the outer
\* handler of _extract_comments, which returns the (empty) list
FbAfterReplies ==
    /\ pc = "fb_replied"
    /\ \E wait \in BOOLEAN :
         pc' = IF wait THEN "fb_articles" ELSE "fb_close"
    /\ round_num' = 0
    /\ expanded' = 0
    /\ reply_buttons' = NoButtons
    /\ cookie_io' = "none"
    /\ remeasured' = <<>>
    /\ UNCHANGED <<flowVarsButPc, guardVars, expandVars, extractVars, histVars>>

\* the candidate articles are enumerated (from the modal, else the page)
FbArticles ==
    /\ pc = "fb_articles"
    /\ \E n \in 0..MaxItems, listed \in BOOLEAN :
         IF listed
         THEN /\ articles' = n
              /\ pc' = IF n = 0 THEN "fb_close" ELSE "fb_item"
         ELSE /\ articles' = 0
              /\ pc' = "fb_close"
    /\ idx' = 0
    /\ cookie_io' = "none"
    /\ remeasured' = <<>>
    /\ UNCHANGED <<flowVarsButPc, guardVars, expandVars, replyVars, histVars>>
    /\ UNCHANGED <<raw_comments, comment_index, max_comments, include_replies>>

\* candidate articles: what one article shows to the per-article code
FbTexts == {<<>>, <<"hola">>, <<"hola", "See more">>, <<"See less">>, <<"chau">>}
FbArticle(kind, raises, name, id, text) ==
    [kind |-> kind, raises |-> raises, author_name |-> name,
     author_id |-> id, text |-> text]
FbItems ==
    {FbArticle("post", FALSE, "Ana", "ana", <<"hola">>),
     FbArticle("comment", TRUE, "Ana", "ana", <<"hola">>),
     FbArticle("comment", FALSE, "", "", <<"hola">>),
     FbArticle("comment", FALSE, "Bob", "bob", <<"hola">>)}
    \cup {FbArticle("comment", FALSE, "Ana", id, text) :
            id \in {"", "ana"}, text \in FbTexts}

\* aria-label names the main post: not a comment
FbIsMainPost(item) == item.kind = "post"

\* C9, changed code: the author test never skips an article
FbNoAuthorIgnored(item) == FALSE

\* no author link with a usable name was found
FbNoAuthor(item) == item.author_name = ""

\* no text is left after the UI strings were dropped
FbNoText(item) == item.text = <<>>

\* an article that is handled without failure, is not the post, shows text
\* and has no author
FbAuthorless(item) ==
    /\ ~item.raises
    /\ item.kind = "comment"
    /\ item.author_name = ""
    /\ item.text # <<>>

\* the comment an accepted article becomes
FbComment(item, index) ==
    CreateComment(index, CleanText(item.text),
                  CreateUser(item.author_id, item.author_id, item.author_name),
                  item)

\* C16, changed code: an article whose handling raises ends the pass
FbAfterArticleAborts(failed, i, n) ==
    IF failed \/ i >= n THEN "fb_close" ELSE "fb_item"

\* where the loop goes after article number i of n: `except Exception:
\* continue` takes a failing article to the next one like any other
FbAfterArticle(failed, i, n) == IF i < n THEN "fb_item" ELSE "fb_close"

\* C34, changed code: the failure of an article reaches scrape's handler,
\* which stores it as the error
FbItemErrorStored(failed, err) == IF failed THEN "Exception" ELSE err

\* result.error after an article was handled: `except Exception: continue`
\* keeps the failure inside the loop, the error stays as it was
FbItemError(failed, err) == err

\* the article becomes a comment
FbAccepted(item) ==
    ~(item.raises \/ FbIsMainPost(item) \/ FbNoAuthor(item) \/ FbNoText(item))

\* one pass of `for article in articles`: any exception skips the article
FbExtractItem ==
    /\ pc = "fb_item"
    /\ \E item \in FbItems :
         /\ IF FbAccepted(item)
            THEN /\ comment_index' = comment_index + 1
                 /\ comments' = AppendComment(comments,
                                               FbComment(item, comment_index + 1))
            ELSE UNCHANGED <<comments, comment_index>>
         /\ no_author_seen' =
               (no_author_seen \/ FbAuthorless(item))
         /\ parse_hist' = ParseHist(parse_hist, item.raises, FbAccepted(item))
         /\ pc' = FbAfterArticle(item.raises, idx + 1, articles)
         /\ error' = FbItemError(item.raises, error)
    /\ idx' = idx + 1
    /\ cookie_io' = "none"
    /\ remeasured' = <<>>
    /\ UNCHANGED <<call, tasks, pages, url, platform, post_set, modal, modal_seen, using_cdp>>
    /\ UNCHANGED <<guardVars, expandVars, replyVars>>
    /\ UNCHANGED <<authenticated, login_wait, expand_done, dead_at, dead_items>>
    /\ UNCHANGED <<articles, raw_comments, max_comments, include_replies>>

\* the final, guarded context.close(); scrape returns the result
FbClose ==
    /\ pc = "fb_close"
    /\ pc' = "returned"
    /\ cookie_io' = "none"
    /\ remeasured' = <<>>
    /\ UNCHANGED <<flowVarsButPc, guardVars, expandVars, replyVars,
                   extractVars, histVars>>

\* scrape is called again on the same FacebookScraper after a call ended:
\* the call starts like the first one, with a new result and new locals;
\* self._modal is set in __init__ only and keeps what the ended call left
FbScrapeAgain ==
    /\ platform = "facebook"
    /\ pc \in {"returned", "raised"}
    /\ pc' = "start"
    /\ url' \in FbUrls
    /\ modal' = modal
    /\ modal_seen' = FALSE
    /\ cookie_io' = "none"
    /\ remeasured' = <<>>
    /\ error' = NoError
    /\ post_set' = FALSE
    /\ comments' = <<>>
    /\ using_cdp' = FALSE
    /\ elapsed' = 0
    /\ captcha_required' = FALSE
    /\ last_status' = ""
    /\ iteration' = 0
    /\ last_count' = 0
    /\ no_change_count' = 0
    /\ clicks' = 0
    /\ target_comments' = 0
    /\ is_modal' = FALSE
    /\ exit_reason' = "none"
    /\ round_num' = 0
    /\ expanded' = 0
    /\ reply_buttons' = NoButtons
    /\ articles' = 0
    /\ raw_comments' = <<>>
    /\ idx' = 0
    /\ comment_index' = 0
    /\ max_comments' = 0
    /\ include_replies' = TRUE
    /\ authenticated' = FALSE
    /\ login_wait' = "none"
    /\ expand_done' = FALSE
    /\ dead_at' = "none"
    /\ dead_items' = 0
    /\ no_author_seen' = FALSE
    /\ parse_hist' = NoFailure
    /\ UNCHANGED <<platform, call, tasks, pages>>

NextFb ==
    \/ FbConnect
    \/ FbLaunch
    \/ FbNewPage
    \/ FbNavigate
    \/ FbCheckLogin
    \/ FbLoginGoto
    \/ FbLoginPoll
    \/ FbLoginFailed
    \/ FbRenavigate
    \/ FbSaveCookies
    \/ FbPreCheck
    \/ FbPrepare
    \/ FbTickScrollClick
    \/ FbTickCountExit
    \/ FbPostExpand
    \/ FbExtractStart
    \/ FbReplyRound
    \/ FbAfterReplies
    \/ FbArticles
    \/ FbExtractItem
    \/ FbClose

(***************************************************************************)
(* TikTokScraper.scrape: URL check, browser, navigation                    *)
(***************************************************************************)
\* _extract_video_id: the text after "/video/", or None (here "")
TtExtractVideoId(u) == IF u.has_video THEN u.id ELSE ""

\* scrape returns at once, error set, on a URL without a video id
TtValidate ==
    /\ platform = "tiktok" /\ pc = "start"
    /\ IF TtExtractVideoId(url) = ""
       THEN pc' = "returned" /\ error' = "URL invalida"
       ELSE pc' = "tt_connect" /\ error' = error
    /\ cookie_io' = "none"
    /\ remeasured' = <<>>
    /\ UNCHANGED <<call, tasks, pages, url, platform, post_set, comments, modal, modal_seen, using_cdp>>
    /\ UNCHANGED <<guardVars, expandVars, replyVars, extractVars, histVars>>

\* Option 1: attach over CDP; any failure falls through to Option 2
TtConnect ==
    /\ pc = "tt_connect"
    /\ \E attached \in BOOLEAN :
         /\ using_cdp' = attached
         /\ pc' = IF attached THEN "tt_page" ELSE "tt_launch"
    /\ cookie_io' = "none"
    /\ remeasured' = <<>>
    /\ UNCHANGED <<call, tasks, pages, url, platform, error, post_set, comments, modal, modal_seen>>
    /\ UNCHANGED <<guardVars, expandVars, replyVars, extractVars, histVars>>

\* Option 2: launch and new_context are not guarded; _load_cookies is
TtLaunch ==
    /\ pc = "tt_launch"
    /\ \E launch \in Outcomes, cookies \in Outcomes :
         IF launch = "ok"
         THEN /\ pc' = AfterCookies(cookies, "tt_page")
              /\ cookie_io' = cookies
              /\ remeasured' = <<>>
         ELSE /\ pc' = "raised"
              /\ cookie_io' = "none"
              /\ remeasured' = <<>>
    /\ UNCHANGED <<flowVarsButPc, guardVars, expandVars, replyVars,
                   extractVars, histVars>>

\* the first existing tab of an attached browser, else context.new_page()
TtPage ==
    /\ pc = "tt_page"
    /\ \E has_pages \in BOOLEAN, new_page \in Outcomes :
         pc' = IF (using_cdp /\ has_pages) \/ new_page = "ok"
               THEN "tt_goto" ELSE "raised"
    /\ cookie_io' = "none"
    /\ remeasured' = <<>>
    /\ UNCHANGED <<flowVarsButPc, guardVars, expandVars, replyVars,
                   extractVars, histVars>>

\* an exception inside scrape's try block: error = str(e), then the close
TtFails(outcome) ==
    /\ error' = ErrorOf(outcome)
    /\ pc' = "tt_close"

\* goto; on an HTTP failure a second strategy is tried, any other exception
\* is raised again; then a 5 s wait and the (guarded) popup closing
TtNavigate ==
    /\ pc = "tt_goto"
    /\ \E goto \in Outcomes \cup {"http_failure"}, retry \in Outcomes,
          wait \in Outcomes :
         IF goto \in {"target_closed", "failed"} THEN TtFails(goto)
         ELSE IF goto = "http_failure" /\ retry # "ok" THEN TtFails(retry)
         ELSE IF wait # "ok" THEN TtFails(wait)
         ELSE pc' = "tt_check_session" /\ error' = error
    /\ cookie_io' = "none"
    /\ remeasured' = <<>>
    /\ UNCHANGED <<call, tasks, pages, url, platform, post_set, comments, modal, modal_seen, using_cdp>>
    /\ UNCHANGED <<guardVars, expandVars, replyVars, extractVars, histVars>>

(***************************************************************************)
(* TikTok session guard                                                    *)
(***************************************************************************)
\* _check_session_valid: a profile/upload/avatar element and no login button
TtSessionSnapshots == SUBSET {"profile", "login_button"}
TtCheckSessionValid(snapshot, raised) ==
    IF raised THEN FALSE
    ELSE "profile" \in snapshot /\ "login_button" \notin snapshot

\* where scrape goes after _check_session_valid
TtSessionGate(valid) == IF valid THEN "tt_prepare" ELSE "tt_guard_start"

TtCheckSession ==
    /\ pc = "tt_check_session"
    /\ \E snapshot \in TtSessionSnapshots, raised \in BOOLEAN :
         LET valid == TtCheckSessionValid(snapshot, raised) IN
         /\ pc' = TtSessionGate(valid)
         /\ authenticated' = valid
    /\ cookie_io' = "none"
    /\ remeasured' = <<>>
    /\ UNCHANGED <<flowVarsButPc, guardVars, expandVars, replyVars, extractVars>>
    /\ UNCHANGED <<login_wait, expand_done, dead_at, dead_items, no_author_seen, parse_hist>>

\* _wait_for_login_and_captcha: the clock starts, then a 3 s wait (not guarded)
TtGuardStart ==
    /\ pc = "tt_guard_start"
    /\ \E wait \in Outcomes :
         IF wait = "ok"
         THEN pc' = "tt_guard_poll" /\ error' = error
         ELSE TtFails(wait)
    /\ elapsed' = TtSettleSeconds
    /\ captcha_required' = FALSE
    /\ last_status' = ""
    /\ login_wait' = "waiting"
    /\ cookie_io' = "none"
    /\ remeasured' = <<>>
    /\ UNCHANGED <<call, tasks, pages, url, platform, post_set, comments, modal, modal_seen, using_cdp>>
    /\ UNCHANGED <<expandVars, replyVars, extractVars>>
    /\ UNCHANGED <<authenticated, expand_done, dead_at, dead_items, no_author_seen, parse_hist>>

\* what the status script can find on the page
TtIndicators == {"captcha", "login_modal", "login_page", "login_in_comments",
                 "login_required", "logged_in", "video_loaded"}
TtSnapshots == {s \in SUBSET TtIndicators : Cardinality(s) <= MaxIndicators}
TtLoginStatuses == {"login_modal", "login_page", "login_in_comments",
                    "login_required"}

\* the selector list of the script's "generic login button" query holds
\* `button:has-text("Log in to comment")`; document.querySelector takes CSS
\* only, rejects the list and throws
TtLoginButtonSelectorAccepted == FALSE

\* the status script: the first indicator found, in the script's order; a
\* script that gets as far as the rejected selector throws, and the guard's
\* try block swallows it. (Evaluating the script may raise for other reasons
\* on any poll, too.)
TtStatus(snapshot) ==
    IF "captcha" \in snapshot THEN "captcha"
    ELSE IF "login_modal" \in snapshot THEN "login_modal"
    ELSE IF "login_page" \in snapshot THEN "login_page"
    ELSE IF "login_in_comments" \in snapshot THEN "login_in_comments"
    ELSE IF ~TtLoginButtonSelectorAccepted THEN "script_error"
    ELSE IF "login_required" \in snapshot THEN "login_required"
    ELSE IF "logged_in" \in snapshot THEN "logged_in"
    ELSE IF "video_loaded" \in snapshot THEN "video_loaded"
    ELSE "loading"

\* captcha_required after the status was handled in the "status changed"
\* block, from the locals last_status and captcha_required of the loop
TtCaptchaPending(status, last, pending) ==
    IF status # last /\ status = "captcha" THEN TRUE ELSE pending
TtCaptchaSeen(status) == TtCaptchaPending(status, last_status, captcha_required)

\* C27, changed code: a loaded video counts as a session
TtPollSucceedsOnVideo(status, last, pending) ==
    status \in {"logged_in", "video_loaded"}
    /\ ~TtCaptchaPending(status, last, pending)

\* one pass of the loop returns True: logged in and no captcha pending
TtPollSucceeds(status, last, pending) ==
    status = "logged_in" /\ ~TtCaptchaPending(status, last, pending)

\* the same test on the loop's locals as scrape's state holds them
TtGuardPasses(status) == TtPollSucceeds(status, last_status, captcha_required)

\* every value the status script has a return statement for
TtStatuses ==
    {"captcha", "logged_in", "video_loaded", "loading"} \cup TtLoginStatuses

\* one pass of `while time.time() - start < max_wait`
\* the stage scrape enters on the value _wait_for_login_and_captcha
\* returned: after a login it goes on to wait for the video on the page as
\* it stands, with no page.goto; after a timeout it gives up
TtAfterGuard(passed) ==
    IF passed THEN "tt_prepare" ELSE "tt_guard_failed"

TtGuardPoll ==
    /\ pc = "tt_guard_poll"
    /\ IF GuardWaits(elapsed)
       THEN \E snapshot \in TtSnapshots, raised \in BOOLEAN, settle \in BOOLEAN,
               wait \in Outcomes :
              LET status == TtStatus(snapshot)
                  threw == raised \/ status = "script_error"
              IN
              IF ~threw /\ TtGuardPasses(status) /\ settle
              THEN /\ pc' = TtAfterGuard(TRUE)
                   /\ authenticated' = TRUE
                   /\ login_wait' = "passed"
                   /\ error' = error
                   /\ elapsed' = 0
                   /\ captcha_required' = FALSE
                   /\ last_status' = ""
              ELSE /\ authenticated' = authenticated
                   /\ login_wait' = login_wait
                   /\ elapsed' = elapsed + PollSeconds
                   /\ IF threw \/ TtGuardPasses(status)
                      THEN UNCHANGED <<captcha_required, last_status>>
                      ELSE /\ last_status' = status
                           /\ captcha_required' =
                                  (TtCaptchaSeen(status) /\ status = "captcha")
                   /\ IF wait = "ok"
                      THEN pc' = "tt_guard_poll" /\ error' = error
                      ELSE TtFails(wait)
       ELSE /\ pc' = TtAfterGuard(FALSE)
            /\ authenticated' = authenticated
            /\ login_wait' = "timed_out"
            /\ error' = error
            /\ elapsed' = 0
            /\ captcha_required' = FALSE
            /\ last_status' = ""
    /\ cookie_io' = "none"
    /\ remeasured' = <<>>
    /\ UNCHANGED <<call, tasks, pages, url, platform, post_set, comments, modal, modal_seen, using_cdp>>
    /\ UNCHANGED <<expandVars, replyVars, extractVars>>
    /\ UNCHANGED <<expand_done, dead_at, dead_items, no_author_seen, parse_hist>>

\* the guard timed out: error is set; a browser scrape launched is closed
\* inside the try block, so a failing close lands in scrape's handler
TtGuardFailed ==
    /\ pc = "tt_guard_failed"
    /\ IF using_cdp
       THEN pc' = "returned" /\ error' = "Login/captcha timeout"
       ELSE \E close \in Outcomes :
              IF close = "ok"
              THEN pc' = "returned" /\ error' = "Login/captcha timeout"
              ELSE TtFails(close)
    /\ cookie_io' = "none"
    /\ remeasured' = <<>>
    /\ UNCHANGED <<call, tasks, pages, url, platform, post_set, comments, modal, modal_seen, using_cdp>>
    /\ UNCHANGED <<guardVars, expandVars, replyVars, extractVars, histVars>>

(***************************************************************************)
(* TikTokScraper: post data, _extract_comments, _expand_comments           *)
(***************************************************************************)
\* an exception leaves _expand_comments, passes through _extract_comments
\* (the call is outside its try block) and reaches scrape's handler
TtExpandRaises(outcome) ==
    /\ ExpandIdle
    /\ exit_reason' = "raised"
    /\ TtFails(outcome)

\* _wait_for_video, _extract_post_data, _open_comments_panel (each swallows
\* its failures), the call of _extract_comments with scrape's max_comments,
\* and the prologue of _expand_comments: a 2 s wait (not guarded)
TtPrepare ==
    /\ pc = "tt_prepare"
    /\ post_set' = TRUE
    /\ comments' = <<>>
    /\ \E limit \in 0..MaxItems, replies \in BOOLEAN, wait \in Outcomes :
         /\ max_comments' = limit
         /\ include_replies' = replies
         /\ IF wait # "ok"
            THEN TtExpandRaises(wait)
            ELSE /\ iteration' = 0
                 /\ last_count' = 0
                 /\ no_change_count' = 0
                 /\ clicks' = 0
                 /\ target_comments' = 0
                 /\ is_modal' = FALSE
                 /\ error' = error
                 /\ IF LoopContinues(0, MaxIterations)
                    THEN pc' = "tt_tick" /\ exit_reason' = "none"
                    ELSE pc' = "tt_expanded" /\ exit_reason' = "ceiling"
    /\ cookie_io' = "none"
    /\ remeasured' = <<>>
    /\ UNCHANGED <<call, tasks, pages, url, platform, modal, modal_seen, using_cdp>>
    /\ UNCHANGED <<guardVars, replyVars, histVars>>
    /\ UNCHANGED <<articles, raw_comments, idx, comment_index>>

\* first half of a tick: the scroll script (guarded), an 800 ms wait (not
\* guarded), the script that clicks every visible "view more" button (guarded)
TtTickScrollClick ==
    /\ pc = "tt_tick"
    /\ \E wait \in Outcomes :
         IF wait # "ok"
         THEN TtExpandRaises(wait)
         ELSE \E visible \in 0..MaxButtons, clicked \in BOOLEAN :
                /\ clicks' = IF clicked THEN visible ELSE 0
                /\ pc' = "tt_count"
                /\ error' = error
                /\ UNCHANGED <<iteration, last_count, no_change_count,
                               target_comments, is_modal, exit_reason>>
    /\ cookie_io' = "none"
    /\ remeasured' = <<>>
    /\ UNCHANGED <<call, tasks, pages, url, platform, post_set, comments, modal, modal_seen, using_cdp>>
    /\ UNCHANGED <<guardVars, replyVars, extractVars, histVars>>

\* the stall test that ends the TikTok loop
TtStalled(streak, i) == streak >= TtStallThreshold /\ i > TtWarmUp

\* second half of a tick: count (guarded: a failure keeps last_count), the
\* streak, the stall test, and the next value of range(max_iterations)
TtTickCountExit ==
    /\ pc = "tt_count"
    /\ \E counted \in Counts \cup {CountFailed} :
         LET current == IF counted = CountFailed THEN last_count ELSE counted
             streak == NextStreak(current, last_count, no_change_count)
         IN /\ last_count' = current
            /\ no_change_count' = streak
            /\ IF TtStalled(streak, iteration)
               THEN /\ pc' = "tt_expanded"
                    /\ exit_reason' = "stall"
                    /\ expand_done' = TRUE
                    /\ UNCHANGED <<iteration, clicks>>
               ELSE /\ iteration' = iteration + 1
                    /\ IF LoopContinues(iteration + 1, MaxIterations)
                       THEN /\ pc' = "tt_tick"
                            /\ clicks' = 0
                            /\ UNCHANGED <<exit_reason, expand_done>>
                       ELSE /\ pc' = "tt_expanded"
                            /\ clicks' = clicks
                            /\ exit_reason' = "ceiling"
                            /\ expand_done' = TRUE
    /\ UNCHANGED <<target_comments, is_modal>>
    /\ cookie_io' = "none"
    /\ remeasured' = <<>>
    /\ UNCHANGED <<flowVarsButPc, guardVars, replyVars, extractVars>>
    /\ UNCHANGED <<authenticated, login_wait, dead_at, dead_items, no_author_seen, parse_hist>>

\* the loop is over: _expand_replies starts
TtPostExpand ==
    /\ pc = "tt_expanded"
    /\ ExpandIdle
    /\ exit_reason' = "none"
    /\ pc' = "tt_reply_round"
    /\ round_num' = 0
    /\ expanded' = 0
    /\ \E shown \in 0..MaxButtons :
          reply_buttons' = [NoButtons EXCEPT !.fresh = shown]
    /\ cookie_io' = "none"
    /\ remeasured' = <<>>
    /\ UNCHANGED <<flowVarsButPc, guardVars, extractVars, histVars>>

\* one round of _expand_replies: the script clicks every visible reply button
\* not yet marked; the round's wait is inside the try block; a round without
\* clicks, or an exception, ends the loop
\* C37, changed code: the script does not test dataset.expanded
TtReplyTargetsMarked(unmarked, marked) == unmarked + marked

\* how many of the visible, rightly labelled reply buttons the script of a
\* round clicks, given how many of them carry no dataset.expanded mark and how
\* many carry it: `!btn.dataset.expanded` passes the unmarked ones only
TtReplyTargets(unmarked, marked) == unmarked

\* one round of _expand_replies. The page shows some of its unmarked and some
\* of its marked buttons; the script clicks and marks its targets; the
\* replies that load may bring one more button
TtReplyRound ==
    /\ pc = "tt_reply_round"
    /\ \E unmarked \in 0..reply_buttons.fresh, marked \in 0..reply_buttons.once,
          more \in 0..1, ok \in BOOLEAN :
         LET clicked == TtReplyTargets(unmarked, marked)
             repeated == clicked - unmarked
             total == reply_buttons.fresh + reply_buttons.once
                      + reply_buttons.again
             added == IF total < MaxButtons THEN more ELSE 0
         IN IF ok /\ clicked > 0
            THEN /\ expanded' = clicked
                 /\ reply_buttons' =
                       [fresh |-> reply_buttons.fresh - unmarked + added,
                        once |-> reply_buttons.once + unmarked - repeated,
                        again |-> reply_buttons.again + repeated,
                        skipped |-> marked - repeated]
                 /\ round_num' = round_num + 1
                 /\ pc' = IF LoopContinues(round_num + 1, TtReplyRounds)
                          THEN "tt_reply_round" ELSE "tt_evaluate"
            ELSE /\ expanded' = 0
                 /\ reply_buttons' =
                       [reply_buttons EXCEPT !.skipped = IF ok THEN marked ELSE 0]
                 /\ round_num' = round_num
                 /\ pc' = "tt_evaluate"
    /\ cookie_io' = "none"
    /\ remeasured' = <<>>
    /\ UNCHANGED <<flowVarsButPc, guardVars, expandVars, extractVars, histVars>>

(***************************************************************************)
(* TikTokScraper._extract_comments: the DOM script and the Python loop     *)
(***************************************************************************)
\* comment wrappers as the DOM script sees them
\* username: text of the username element; link_id: the id in its link;
\* avatar_id: the id in the first profile link; raises: handling it throws;
\* is_reply: the wrapper lies inside a reply container
TtWrapper(raises, username, link_id, avatar_id, text) ==
    [raises |-> raises, username |-> username, link_id |-> link_id,
     avatar_id |-> avatar_id, text |-> text, is_reply |-> FALSE]
TtWrappers ==
    {TtWrapper(FALSE, "", "", "", <<"hola">>),
     TtWrapper(TRUE, "Ana", "ana", "", <<"hola">>),
     TtWrapper(FALSE, "Ana", "ana", "", <<"hola">>),
     TtWrapper(FALSE, "Ana", "ana", "", <<"Ana", "hola">>),
     TtWrapper(FALSE, "Ana", "", "", <<"chau">>),
     TtWrapper(FALSE, "", "", "bob", <<"hola">>),
     TtWrapper(FALSE, "Ana", "ana", "", <<>>),
     TtWrapper(FALSE, "Ana", "ana", "", <<"-">>),
     [TtWrapper(FALSE, "Bob", "bob", "", <<"si">>) EXCEPT !.is_reply = TRUE]}

RECURSIVE SeqsUpTo(_, _)
SeqsUpTo(S, n) ==
    IF n = 0 THEN {<<>>}
    ELSE LET shorter == SeqsUpTo(S, n - 1)
         IN shorter \cup {Append(q, x) : q \in shorter, x \in S}

\* the author the script finds: the username element and its link; without
\* a username, the first profile link gives both
TtFoundUsername(w) ==
    IF w.username # "" THEN w.username ELSE w.avatar_id
TtFoundUserId(w) ==
    IF w.username = "" /\ w.avatar_id # "" THEN w.avatar_id ELSE w.link_id

\* `if (!username && !userId) return`
TtNoAuthor(w) == TtFoundUsername(w) = "" /\ TtFoundUserId(w) = ""

\* each of username and userId falls back to the other
TtUsername(w) ==
    IF TtFoundUsername(w) # "" THEN TtFoundUsername(w) ELSE TtFoundUserId(w)
TtUserId(w) ==
    IF TtFoundUserId(w) # "" THEN TtFoundUserId(w) ELSE TtUsername(w)

\* the script's text clean-up on a text given as its words: a leading
\* username is removed, then leading and trailing separators
TtSeparators == {"-"}
RECURSIVE TtStripLeading(_)
TtStripLeading(text) ==
    IF text # <<>> /\ Head(text) \in TtSeparators
    THEN TtStripLeading(Tail(text)) ELSE text
RECURSIVE TtStripTrailing(_)
TtStripTrailing(text) ==
    IF text # <<>> /\ text[Len(text)] \in TtSeparators
    THEN TtStripTrailing(SubSeq(text, 1, Len(text) - 1)) ELSE text
TtCleanText(text, username) ==
    LET body == IF text # <<>> /\ Head(text) = username THEN Tail(text) ELSE text
    IN TtStripTrailing(TtStripLeading(body))

\* the script pushes the wrapper
TtAccepted(w) ==
    ~(w.raises \/ TtNoAuthor(w) \/ TtCleanText(w.text, TtUsername(w)) = <<>>)

\* the DOM script over the wrappers: a wrapper whose handling throws, or
\* without author, or without text is left out; the others are pushed in order
RECURSIVE TtDomExtract(_)
TtDomExtract(wrappers) ==
    IF wrappers = <<>> THEN <<>>
    ELSE LET w == Head(wrappers)
             text == TtCleanText(w.text, TtUsername(w))
             rest == TtDomExtract(Tail(wrappers))
         IN IF ~TtAccepted(w) THEN rest
            ELSE <<[username |-> TtUsername(w), userId |-> TtUserId(w),
                    text |-> text, isReply |-> w.is_reply,
                    wrapper |-> w]>> \o rest

\* the history of the script's loop over the wrappers
RECURSIVE TtParseHist(_, _)
TtParseHist(hist, wrappers) ==
    IF wrappers = <<>> THEN hist
    ELSE TtParseHist(ParseHist(hist, Head(wrappers).raises,
                               TtAccepted(Head(wrappers))),
                     Tail(wrappers))

\* a wrapper that is handled without failure, shows text and has no
\* username element text and no profile link
TtAuthorless(w) ==
    /\ ~w.raises
    /\ w.username = "" /\ w.link_id = "" /\ w.avatar_id = ""
    /\ w.text # <<>>

\* what the DOM script reads from a page, for every list of wrappers the
\* page can hold: the wrapper count, the raw comments, whether a wrapper has
\* no author, and the counts that fail to parse
TtPageReads ==
    {[wrappers |-> Len(wrappers),
      raw |-> TtDomExtract(wrappers),
      authorless |-> \E i \in 1..Len(wrappers) : TtAuthorless(wrappers[i]),
      hist |-> TtParseHist(NoFailure, wrappers)] :
        wrappers \in SeqsUpTo(TtWrappers, MaxItems)}

\* page.evaluate of the DOM script; a failure is caught and leaves no comments
TtEvaluate ==
    /\ pc = "tt_evaluate"
    /\ round_num' = 0
    /\ expanded' = 0
    /\ reply_buttons' = NoButtons
    /\ idx' = 0
    /\ \E read \in TtPageReads, ok \in BOOLEAN :
         LET raw == IF ok THEN read.raw ELSE <<>>
         IN /\ articles' = IF ok THEN read.wrappers ELSE 0
            /\ raw_comments' = raw
            /\ pc' = IF raw = <<>> THEN "tt_save" ELSE "tt_item"
            /\ no_author_seen' = (ok /\ read.authorless)
            /\ parse_hist' = IF ok THEN read.hist ELSE NoFailure
    /\ cookie_io' = "none"
    /\ remeasured' = <<>>
    /\ UNCHANGED <<flowVarsButPc, guardVars, expandVars>>
    /\ UNCHANGED <<authenticated, login_wait, expand_done, dead_at, dead_items>>
    /\ UNCHANGED <<comment_index, max_comments, include_replies>>

\* C8, changed code: the index is the position enumerate gives, from 0
TtIndexFromZero(i) == i

\* the index the Python loop gives the comment built from raw item number i
\* (i counts from 0, as enumerate does)
TtIndex(i) == i + 1

\* the comment a raw item becomes
TtComment(raw, i) ==
    CreateComment(TtIndex(i), raw.text,
                  CreateUser(raw.userId, raw.username, raw.username), raw)
    @@ [is_reply |-> raw.isReply]

\* C20, changed code: the test lets one more item through
TtTruncatesLate(limit, i) == limit # 0 /\ i > limit

\* `if max_comments and idx >= max_comments: break`
TtTruncates(limit, i) == limit # 0 /\ i >= limit

\* one pass of `for idx, raw in enumerate(raw_comments)`; every raw item the
\* script pushed has its username, userId and text, so building the comment
\* does not raise
TtExtractItem ==
    /\ pc = "tt_item"
    /\ IF TtTruncates(max_comments, idx)
       THEN /\ pc' = "tt_save"
            /\ UNCHANGED <<comments, idx>>
       ELSE /\ comments' = AppendComment(comments,
                                          TtComment(raw_comments[idx + 1], idx))
            /\ idx' = idx + 1
            /\ pc' = IF idx + 1 < Len(raw_comments) THEN "tt_item" ELSE "tt_save"
    /\ cookie_io' = "none"
    /\ remeasured' = <<>>
    /\ UNCHANGED <<call, tasks, pages, url, platform, error, post_set, modal, modal_seen, using_cdp>>
    /\ UNCHANGED <<guardVars, expandVars, replyVars, histVars>>
    /\ UNCHANGED <<articles, raw_comments, comment_index, max_comments, include_replies>>

\* result.comments is assigned; _save_cookies swallows its failures
TtSaveCookies ==
    /\ pc = "tt_save"
    /\ \E cookies \in Outcomes :
         /\ pc' = AfterCookies(cookies, "tt_close")
         /\ cookie_io' = cookies
         /\ remeasured' = <<>>
    /\ UNCHANGED <<flowVarsButPc, guardVars, expandVars, replyVars,
                   extractVars, histVars>>

\* a launched browser is closed without a guard; for an attached browser only
\* the page is closed, guarded
TtClose ==
    /\ pc = "tt_close"
    /\ IF using_cdp
       THEN pc' = "returned"
       ELSE \E close \in Outcomes :
              pc' = IF close = "ok" THEN "returned" ELSE "raised"
    /\ cookie_io' = "none"
    /\ remeasured' = <<>>
    /\ UNCHANGED <<flowVarsButPc, guardVars, expandVars, replyVars,
                   extractVars, histVars>>

NextTt ==
    \/ TtValidate
    \/ TtConnect
    \/ TtLaunch
    \/ TtPage
    \/ TtNavigate
    \/ TtCheckSession
    \/ TtGuardStart
    \/ TtGuardPoll
    \/ TtGuardFailed
    \/ TtPrepare
    \/ TtTickScrollClick
    \/ TtTickCountExit
    \/ TtPostExpand
    \/ TtReplyRound
    \/ TtEvaluate
    \/ TtExtractItem
    \/ TtSaveCookies
    \/ TtClose

Next == NextFb \/ NextTt

Spec == Init /\ [][Next]_vars

\* a FacebookScraper used for one scrape call after another
NextCalls ==
    \/ Next
    \/ FbScrapeAgain

CallsSpec == Init /\ [][NextCalls]_vars

(***************************************************************************)
(* The helper functions called on their own, on every input of a bounded   *)
(* set: no scrape is running                                               *)
(***************************************************************************)
Called(fn, arg, result) ==
    /\ call' = [fn |-> fn, arg |-> arg, result |-> result]
    /\ UNCHANGED <<scrapeVars, tasks, pages>>

\* FacebookScraper._is_logged_in on a page
CallIsLoggedIn ==
    \E snapshot \in FbSnapshots, raised \in BOOLEAN :
       Called("_is_logged_in", [snapshot |-> snapshot, raised |-> raised],
              FbIsLoggedIn(snapshot, raised))

\* TikTokScraper._check_session_valid on a page
CallCheckSessionValid ==
    \E snapshot \in TtSessionSnapshots, raised \in BOOLEAN :
       Called("_check_session_valid",
              [snapshot |-> snapshot, raised |-> raised],
              TtCheckSessionValid(snapshot, raised))

\* the status script of TikTokScraper._wait_for_login_and_captcha on a page
CallStatus ==
    \E snapshot \in TtSnapshots :
       Called("status", [snapshot |-> snapshot, raised |-> FALSE],
              TtStatus(snapshot))

(***************************************************************************)
(* Text as Python sees it: a sequence of one-character strings             *)
(***************************************************************************)
DigitChars == {"0", "1", "2", "3", "4", "5", "6", "7", "8", "9"}
DigitValue(c) ==
    CASE c = "0" -> 0 [] c = "1" -> 1 [] c = "2" -> 2 [] c = "3" -> 3
      [] c = "4" -> 4 [] c = "5" -> 5 [] c = "6" -> 6 [] c = "7" -> 7
      [] c = "8" -> 8 [] c = "9" -> 9
DigitChar(v) == CHOOSE c \in DigitChars : DigitValue(c) = v

\* int() of a run of digits
RECURSIVE NumberValue(_)
NumberValue(digits) ==
    IF digits = <<>> THEN 0
    ELSE NumberValue(SubSeq(digits, 1, Len(digits) - 1)) * 10
         + DigitValue(digits[Len(digits)])

\* the decimal digits of a natural number
RECURSIVE NumberChars(_)
NumberChars(n) ==
    IF n < 10 THEN <<DigitChar(n)>>
    ELSE NumberChars(n \div 10) \o <<DigitChar(n % 10)>>

\* str.lower() and str.upper(), over the letters the inputs hold
LowerChar(c) ==
    CASE c = "A" -> "a" [] c = "H" -> "h" [] c = "K" -> "k" [] c = "M" -> "m"
      [] OTHER -> c
UpperChar(c) ==
    CASE c = "h" -> "H" [] c = "k" -> "K" [] c = "m" -> "M" [] c = "x" -> "X"
      [] OTHER -> c
Lower(text) == [i \in 1..Len(text) |-> LowerChar(text[i])]
Upper(text) == [i \in 1..Len(text) |-> UpperChar(text[i])]

\* str.strip()
RECURSIVE StripLeft(_)
StripLeft(text) ==
    IF text # <<>> /\ Head(text) = " " THEN StripLeft(Tail(text)) ELSE text
RECURSIVE StripRight(_)
StripRight(text) ==
    IF text # <<>> /\ text[Len(text)] = " "
    THEN StripRight(SubSeq(text, 1, Len(text) - 1)) ELSE text
Strip(text) == StripRight(StripLeft(text))

\* word is found in text at position k
StartsWith(text, k, word) ==
    /\ k + Len(word) - 1 <= Len(text)
    /\ \A i \in 1..Len(word) : text[k + i - 1] = word[i]

\* `word in text`
Contains(text, word) == \E k \in 1..Len(text) : StartsWith(text, k, word)

(***************************************************************************)
(* BaseScraper.parse_relative_time                                         *)
(***************************************************************************)
\* the instant datetime.now() gives, in Unix seconds
Now == 1700000000

\* the pattern list, in the order the loop tries it: the alternatives of the
\* unit group and the unit's name; a keyword pattern has no number group
TimePatterns ==
    << [number |-> TRUE, unit |-> "seconds",
        words |-> {<<"s">>, <<"s","e","g">>, <<"s","e","c","o","n","d">>}],
       [number |-> TRUE, unit |-> "minutes",
        words |-> {<<"m">>, <<"m","i","n">>, <<"m","i","n","u","t","e">>,
                   <<"m","i","n","u","t","o">>}],
       [number |-> TRUE, unit |-> "hours",
        words |-> {<<"h">>, <<"h","r">>, <<"h","o","u","r">>,
                   <<"h","o","r","a">>}],
       [number |-> TRUE, unit |-> "days",
        words |-> {<<"d">>, <<"d","a","y">>, <<"d","í","a">>,
                   <<"d","i","a">>}],
       [number |-> TRUE, unit |-> "weeks",
        words |-> {<<"w">>, <<"w","e","e","k">>, <<"s","e","m">>,
                   <<"s","e","m","a","n","a">>}],
       [number |-> TRUE, unit |-> "months",
        words |-> {<<"m","o">>, <<"m","o","n","t","h">>, <<"m","e","s">>}],
       [number |-> TRUE, unit |-> "years",
        words |-> {<<"y">>, <<"y","e","a","r">>, <<"a","ñ","o">>}],
       [number |-> FALSE, unit |-> "yesterday",
        words |-> {<<"a","y","e","r">>,
                   <<"y","e","s","t","e","r","d","a","y">>}],
       [number |-> FALSE, unit |-> "today",
        words |-> {<<"h","o","y">>, <<"t","o","d","a","y">>}],
       [number |-> FALSE, unit |-> "now",
        words |-> {<<"a","h","o","r","a">>, <<"n","o","w">>,
                   <<"j","u","s","t">>}] >>

\* the timedelta of one unit, in seconds
UnitSeconds(unit) ==
    CASE unit = "seconds" -> 1
      [] unit = "minutes" -> 60
      [] unit = "hours" -> 3600
      [] unit = "days" -> 86400
      [] unit = "weeks" -> 7 * 86400
      [] unit = "months" -> 30 * 86400
      [] unit = "years" -> 365 * 86400
      [] unit = "yesterday" -> 86400
      [] OTHER -> 0

\* the end of the run of digits that starts at position i (\d+ is greedy)
RECURSIVE DigitsEnd(_, _)
DigitsEnd(text, i) ==
    IF i <= Len(text) /\ text[i] \in DigitChars
    THEN DigitsEnd(text, i + 1) ELSE i

\* the end of the run of spaces that starts at position i (\s*)
RECURSIVE SpacesEnd(_, _)
SpacesEnd(text, i) ==
    IF i <= Len(text) /\ text[i] = " " THEN SpacesEnd(text, i + 1) ELSE i

\* (\d+)\s*(w1|w2|...) matches at position i: none of the words begins
\* with a digit or a space, so giving digits or spaces back never helps
NumberMatchAt(text, i, words) ==
    /\ i <= Len(text) /\ text[i] \in DigitChars
    /\ \E word \in words :
          StartsWith(text, SpacesEnd(text, DigitsEnd(text, i)), word)

\* re.search(pattern, text) for a row of the list: whether it matches, and
\* int(match.group(1)) of the leftmost match
PatternMatches(text, row) ==
    IF row.number
    THEN \E i \in 1..Len(text) : NumberMatchAt(text, i, row.words)
    ELSE \E word \in row.words : Contains(text, word)
MatchNumber(text, row) ==
    LET i == CHOOSE k \in 1..Len(text) :
                /\ NumberMatchAt(text, k, row.words)
                /\ \A j \in 1..(k - 1) : ~NumberMatchAt(text, j, row.words)
    IN NumberValue(SubSeq(text, i, DigitsEnd(text, i) - 1))

\* `for pattern, unit in patterns`: the first row, from row k on, whose
\* pattern is found in the text; 0 when none is
RECURSIVE FirstMatch(_, _)
FirstMatch(text, k) ==
    IF k > Len(TimePatterns) THEN 0
    ELSE IF PatternMatches(text, TimePatterns[k]) THEN k
    ELSE FirstMatch(text, k + 1)

parse_relative_time(time_str, now) ==
    LET text == Strip(Lower(time_str))
        k == FirstMatch(text, 1)
    IN IF k = 0 THEN now
       ELSE LET row == TimePatterns[k]
            IN IF row.number
               THEN now - MatchNumber(text, row) * UnitSeconds(row.unit)
               ELSE now - UnitSeconds(row.unit)

\* the time strings given to parse_relative_time: a number, a space or none,
\* a unit word; keywords; text that holds no time
MaxNumber == 12
UnitWords ==
    UNION {TimePatterns[k].words : k \in 1..7} \cup {<<"H">>}
TimeToken(n, spaces, word) ==
    NumberChars(n) \o [i \in 1..spaces |-> " "] \o word
TimeStrings ==
    {TimeToken(n, spaces, word) :
        n \in 1..MaxNumber, spaces \in 0..1, word \in UnitWords}
    \cup {<<"a","y","e","r">>, <<"A","y","e","r">>, <<"h","o","y">>,
          <<"a","h","o","r","a">>, <<>>, <<"x">>, <<"7">>,
          <<" ","2"," ","h"," ">>}

CallParseRelativeTime ==
    \E time_str \in TimeStrings :
       Called("parse_relative_time", [time_str |-> time_str, now |-> Now],
              parse_relative_time(time_str, Now))

(***************************************************************************)
(* TikTokScraper._parse_count                                              *)
(***************************************************************************)
\* str.replace(c, '')
Remove(text, c) == SelectSeq(text, LAMBDA x : x # c)

RECURSIVE Pow10(_)
Pow10(k) == IF k = 0 THEN 1 ELSE 10 * Pow10(k - 1)

\* a sign, then digits only
AllDigits(text) == \A i \in 1..Len(text) : text[i] \in DigitChars
Unsigned(text) == IF text # <<>> /\ Head(text) = "-" THEN Tail(text) ELSE text
IsNegative(text) == text # <<>> /\ Head(text) = "-"

\* int(text): surrounding spaces are dropped; a sign and at least one digit
IntParses(text) ==
    LET body == Unsigned(Strip(text)) IN body # <<>> /\ AllDigits(body)
IntValue(text) ==
    LET t == Strip(text)
        v == NumberValue(Unsigned(t))
    IN IF IsNegative(t) THEN 0 - v ELSE v

\* float(text): surrounding spaces are dropped; a sign, digits with at most
\* one point among them, at least one digit. The value is kept as the digits
\* read as one number (mantissa) and the count of digits after the point.
FloatParses(text) ==
    LET body == Unsigned(Strip(text))
        digits == Remove(body, ".")
    IN /\ digits # <<>> /\ AllDigits(digits)
       /\ Len(body) - Len(digits) <= 1
FloatDecimals(text) ==
    LET body == Unsigned(Strip(text))
        point == CHOOSE i \in 1..(Len(body) + 1) :
                    (i <= Len(body) /\ body[i] = ".")
                    \/ (i = Len(body) + 1 /\ ~Contains(body, <<".">>))
    IN IF point > Len(body) THEN 0 ELSE Len(body) - point
FloatMantissa(text) == NumberValue(Remove(Unsigned(Strip(text)), "."))

\* the decimal fractions of the inputs whose binary64 value times the
\* multiplier falls just below the whole number: float('32.3') * 1000 is
\* 32299.999999999996 and float('32.3') * 1000000 is 32299999.999999996
Binary64Below == {<<323, 1, 1000>>, <<323, 1, 1000000>>}

\* int(float(text) * multiplier) for a value of magnitude mantissa /
\* 10^decimals: the binary64 product, cut towards zero
FloatProductInt(mantissa, decimals, multiplier) ==
    LET exact == IF multiplier % Pow10(decimals) = 0
                 THEN mantissa * (multiplier \div Pow10(decimals))
                 ELSE (mantissa * multiplier) \div Pow10(decimals)
    IN IF <<mantissa, decimals, multiplier>> \in Binary64Below
       THEN exact - 1 ELSE exact

\* int(float(text.replace(suffix, '')) * multiplier), 0 when float() raises
ScaledCount(text, suffix, multiplier) ==
    LET number == Remove(text, suffix)
    IN IF ~FloatParses(number) THEN 0
       ELSE LET v == FloatProductInt(FloatMantissa(number),
                                     FloatDecimals(number), multiplier)
            IN IF IsNegative(Strip(number)) THEN 0 - v ELSE v

_parse_count(raw_text) ==
    IF raw_text = <<>> THEN 0
    ELSE LET text == Upper(Strip(raw_text))
         IN IF Contains(text, <<"K">>) THEN ScaledCount(text, "K", 1000)
            ELSE IF Contains(text, <<"M">>) THEN ScaledCount(text, "M", 1000000)
            ELSE LET plain == Remove(Remove(text, ","), ".")
                 IN IF IntParses(plain) THEN IntValue(plain) ELSE 0

\* the count texts given to _parse_count: a sign or none, a whole part, one
\* decimal or none, a suffix or none; and texts that hold no count
CountWholes == {0, 1, 3, 32, 742}
CountDecimals == {<<>>, <<".", "2">>, <<".", "3">>}
CountSuffixes == {<<>>, <<"K">>, <<"M">>, <<"k">>}
CountToken(sign, whole, decimal, suffix) ==
    sign \o NumberChars(whole) \o decimal \o suffix
CountStrings ==
    {CountToken(sign, whole, decimal, suffix) :
        sign \in {<<>>, <<"-">>}, whole \in CountWholes,
        decimal \in CountDecimals, suffix \in CountSuffixes}
    \cup {<<>>, <<"x">>, <<"K">>, <<"1", "K", "M">>, <<"1", ",", "2", "K">>,
          <<"1", ",", "2", "3", "4">>, <<" ", "7", "4", "2", " ">>,
          <<"1", ".", "2", " ", "K">>}

CallParseCount ==
    \E text \in CountStrings :
       Called("_parse_count", [text |-> text], _parse_count(text))

\* one pass of the loop of _wait_for_login_and_captcha on a status, with
\* the loop's locals as they stand: whether the pass returns True. The
\* argument is the triple of status, last_status and captcha_required
CallGuardPoll ==
    \E seen \in TtStatuses, last \in TtStatuses \cup {""},
       pending \in BOOLEAN :
       Called("guard_poll",
              <<seen, last, pending>>,
              TtPollSucceeds(seen, last, pending))

\* the branch scrape takes on the value its login wait returned, on either
\* platform. The argument is the pair of platform and returned value
CallAfterGuard ==
    \E p \in {"facebook", "tiktok"}, passed \in BOOLEAN :
       Called("after_guard",
              <<p, passed>>,
              IF p = "facebook" THEN FbAfterGuard(passed)
              ELSE TtAfterGuard(passed))

(***************************************************************************)
(* created_at of a comment                                                 *)
(***************************************************************************)
\* what the two time selectors of a Facebook article can find: no element,
\* or an element with its data-utime attribute (empty when it has none) and
\* its inner text
NoTimeEl == [found |-> FALSE, utime |-> <<>>, text |-> <<>>]
TimeEl(utime, text) == [found |-> TRUE, utime |-> utime, text |-> text]
FbUtimes == {<<>>, <<"1", "6", "9", "9">>, <<"x">>}
FbTimeTexts == {<<>>, <<"3", " ", "h">>, <<"2", " ", "d">>, <<"x">>}
FbTimeEls ==
    {NoTimeEl} \cup {TimeEl(u, t) : u \in FbUtimes, t \in FbTimeTexts}

\* the loop over time_selectors from selector k on: the first element found
\* that has a data-utime gives int(utime), and a utime that is no integer
\* raises, which leaves the extraction instant; otherwise its text, when it
\* has one, goes to parse_relative_time; an element with neither lets the
\* loop go on, and the extraction instant stays when the selectors are used up
RECURSIVE FbCreatedAtFrom(_, _, _)
FbCreatedAtFrom(els, k, now) ==
    IF k > Len(els) THEN now
    ELSE LET el == els[k]
         IN IF ~el.found THEN FbCreatedAtFrom(els, k + 1, now)
            ELSE IF el.utime # <<>>
            THEN IF IntParses(el.utime) THEN IntValue(el.utime) ELSE now
            ELSE IF el.text # <<>> THEN parse_relative_time(el.text, now)
            ELSE FbCreatedAtFrom(els, k + 1, now)
FbCreatedAt(els, now) == FbCreatedAtFrom(els, 1, now)

\* the time texts the TikTok script can put in raw['timestamp']: empty when
\* the wrapper's text has no match of (\d+[hmdwsW]), else digits and a letter
TtTimestamps ==
    {<<>>} \cup {TimeToken(n, 0, <<unit>>) :
                   n \in {1, 3, 12}, unit \in {"h", "m", "d", "w", "s", "W"}}

\* created_at of a TikTok comment: create_comment is given int(time.time());
\* raw['timestamp'] is not read
TtCreatedAt(timestamp, now) == now

CallFbCreatedAt ==
    \E first \in FbTimeEls, second \in FbTimeEls :
       Called("fb_created_at", <<first, second>>,
              FbCreatedAt(<<first, second>>, Now))

CallTtCreatedAt ==
    \E timestamp \in TtTimestamps :
       Called("tt_created_at", <<timestamp>>, TtCreatedAt(timestamp, Now))

NextHelpers ==
    \/ CallGuardPoll
    \/ CallAfterGuard
    \/ CallFbCreatedAt
    \/ CallTtCreatedAt
    \/ CallParseCount
    \/ CallIsLoggedIn
    \/ CallCheckSessionValid
    \/ CallStatus
    \/ CallParseRelativeTime

HelperSpec == Init /\ [][NextHelpers]_vars

(***************************************************************************)
(* Two scrape tasks of one event loop.  Each await of a surface operation  *)
(* is a suspension point: the operation is in flight and the other task    *)
(* may run.  A page is named by its context (0: the running Chrome on port *)
(* 9222, t: the browser task t launched) and a number in it.               *)
(***************************************************************************)
\* surface operations a task issues on its page before it closes
MaxOps == 2

NoPage == <<>>
\* the tab the user has open in the running Chrome
UserTab == <<0, 0>>
Task(p) == [platform |-> p, pc |-> "connect", cdp |-> FALSE,
            page |-> NoPage, ops |-> 0]

\* asyncio.gather of two scrape coroutines; the running Chrome has no tab or
\* the user's
ScheduleTasks ==
    /\ tasks = NoTasks
    /\ \E p1 \in {"facebook", "tiktok"}, p2 \in {"facebook", "tiktok"},
          tabs \in {<<>>, <<UserTab>>} :
          /\ tasks' = <<Task(p1), Task(p2)>>
          /\ pages' = tabs
    /\ UNCHANGED <<scrapeVars, call>>

\* connect_over_cdp in its try/except, then the launch of an own browser
\* when it failed; a failing launch leaves scrape as an exception
TaskConnect(t) ==
    /\ tasks # NoTasks
    /\ tasks[t].pc = "connect"
    /\ \E attached \in BOOLEAN, launched \in BOOLEAN :
          tasks' = [tasks EXCEPT
                      ![t].cdp = attached,
                      ![t].pc = IF attached \/ launched THEN "page"
                                ELSE "raised"]
    /\ UNCHANGED <<scrapeVars, call, pages>>

\* TikTok attached to the running Chrome takes context.pages[0] when the
\* context has a page; otherwise, and always on Facebook, context.new_page()
TaskReusesPage(t) ==
    tasks[t].platform = "tiktok" /\ tasks[t].cdp /\ pages # <<>>

TaskPage(t) ==
    /\ tasks # NoTasks
    /\ tasks[t].pc = "page"
    /\ IF TaskReusesPage(t)
       THEN /\ tasks' = [tasks EXCEPT ![t].page = pages[1], ![t].pc = "ready"]
            /\ pages' = pages
       ELSE \E made \in BOOLEAN :
              LET fresh == IF tasks[t].cdp THEN <<0, t>> ELSE <<t, 1>>
              IN IF made
                 THEN /\ tasks' = [tasks EXCEPT ![t].page = fresh,
                                                ![t].pc = "ready"]
                      /\ pages' = IF tasks[t].cdp THEN Append(pages, fresh)
                                  ELSE pages
                 ELSE /\ tasks' = [tasks EXCEPT ![t].pc = "raised"]
                      /\ pages' = pages
    /\ UNCHANGED <<scrapeVars, call>>

\* the task awaits a surface operation on its page (goto, evaluate, click,
\* query, wait)
TaskBegin(t) ==
    /\ tasks # NoTasks
    /\ tasks[t].pc = "ready"
    /\ tasks[t].ops < MaxOps
    /\ tasks' = [tasks EXCEPT ![t].pc = "in_flight"]
    /\ UNCHANGED <<scrapeVars, call, pages>>

\* the awaited operation completes; scrape goes on, or goes to its close
\* when the operation failed or was its last
TaskEnd(t) ==
    /\ tasks # NoTasks
    /\ tasks[t].pc = "in_flight"
    /\ \E ok \in BOOLEAN :
          tasks' = [tasks EXCEPT
                      ![t].ops = @ + 1,
                      ![t].pc = IF ok /\ tasks[t].ops + 1 < MaxOps
                                THEN "ready" ELSE "close"]
    /\ UNCHANGED <<scrapeVars, call, pages>>

\* the end of scrape. TikTok attached closes its page; Facebook closes its
\* context, which for the running Chrome's default context closes nothing
\* (the failure is swallowed); an own browser goes away with its page
TaskClose(t) ==
    /\ tasks # NoTasks
    /\ tasks[t].pc = "close"
    /\ tasks' = [tasks EXCEPT ![t].pc = "done"]
    /\ pages' = IF tasks[t].platform = "tiktok" /\ tasks[t].cdp
                THEN SelectSeq(pages, LAMBDA p : p # tasks[t].page)
                ELSE pages
    /\ UNCHANGED <<scrapeVars, call>>

NextTasks ==
    \/ ScheduleTasks
    \/ \E t \in 1..2 : TaskConnect(t)
    \/ \E t \in 1..2 : TaskPage(t)
    \/ \E t \in 1..2 : TaskBegin(t)
    \/ \E t \in 1..2 : TaskEnd(t)
    \/ \E t \in 1..2 : TaskClose(t)

TasksSpec == Init /\ [][NextTasks]_vars
(***************************************************************************)
(* Properties                                                              *)
(***************************************************************************)
TickPcs == {"fb_tick", "fb_count", "tt_tick", "tt_count"}
ExtractionPcs == {"fb_extract_start", "fb_reply_round", "fb_replied",
                  "fb_articles", "fb_item", "tt_evaluate", "tt_item"}

\* the comments of the list that share text and user id with an earlier one
HasDuplicate(list) ==
    \E i, j \in 1..Len(list) :
       i < j /\ list[i].text = list[j].text /\ list[i].user.id = list[j].user.id

\* C1: the expansion loop of either platform runs at most max_iterations
\* ticks: the loop index never exceeds max_iterations, and a tick is only
\* ever in progress with an index below it, whatever the counts, clicks and
\* failures were.
C1_ExpansionBounded ==
    /\ iteration <= MaxIterations
    /\ pc \in TickPcs => iteration < MaxIterations

\* C1 witness: the loop ran into the ceiling with a count that changed on the
\* last tick (it never stabilised).
C1_CeilingReached ==
    /\ exit_reason = "ceiling"
    /\ iteration = MaxIterations
    /\ no_change_count = 0

\* C2 as the spec states it: no exception ever leaves scrape.
C2_NothingEscapes == pc # "raised"

\* C3 as the spec states it: once the session guard timed out, scrape
\* returns a result (nothing is raised), the returned result has an error,
\* and no expansion tick or extraction pass runs.
C3_GuardFailureReturnsError ==
    login_wait = "timed_out" =>
        /\ pc # "raised"
        /\ pc = "returned" => error # NoError
        /\ pc \notin TickPcs \cup ExtractionPcs
        /\ ~expand_done

\* C4 as the spec states it: a Facebook scrape in which some liveness check
\* failed returns a result with an error.
C4_DeathSetsError ==
    (platform = "facebook" /\ pc = "returned" /\ dead_at # "none")
        => error # NoError

\* C5 as the spec states it: when the expansion loop stopped on a dead
\* surface with items already counted, the returned result has an error and
\* its comments hold items of the final extraction pass.
C5_DeathKeepsItems ==
    (pc = "returned" /\ dead_at = "expand" /\ dead_items > 0)
        => (error # NoError /\ comments # <<>>)

\* C6: a tick of the expansion loop is only in progress after the session
\* guard reported an authenticated session; the extraction pass is only in
\* progress after the main expansion loop ended; and a tick starts only from
\* the loop's prologue or from the end of the tick before it, with the loop
\* index advanced by one.
C6_StagesOrdered ==
    /\ [](pc \in TickPcs => authenticated)
    /\ [](pc \in ExtractionPcs => expand_done /\ authenticated)
    /\ [][(pc' \in {"fb_tick", "tt_tick"} /\ pc' # pc) =>
            \/ pc \in {"fb_prepare", "tt_prepare"} /\ iteration' = 0
            \/ pc \in {"fb_count", "tt_count"} /\ iteration' = iteration + 1]_vars

\* C6 witness: the extraction pass is at its items, after a manual login and
\* after the expansion loop.
C6_ExtractingAfterLogin ==
    /\ pc = "fb_item"
    /\ login_wait = "passed"
    /\ expand_done

C8_IndexContiguous ==
    \A i \in 1..Len(comments) : comments[i].index = i

\* C8 witness: a TikTok result was returned after the script left a wrapper
\* out and max_comments cut the raw items short.
C8_SkippedAndTruncated ==
    /\ pc = "returned"
    /\ platform = "tiktok"
    /\ articles > Len(raw_comments)
    /\ Len(raw_comments) > max_comments
    /\ max_comments > 0
    /\ Len(comments) = max_comments

\* C9: no comment of the list was built from an item without an author: on
\* Facebook an article without an author name, on TikTok a wrapper with no
\* username element text and no profile link.
C9_NoAuthorNoComment ==
    \A i \in 1..Len(comments) :
       /\ platform = "facebook" => comments[i].raw.author_name # ""
       /\ platform = "tiktok" =>
             \/ comments[i].raw.wrapper.username # ""
             \/ comments[i].raw.wrapper.link_id # ""
             \/ comments[i].raw.wrapper.avatar_id # ""

\* C9 witness: a result was returned with comments after the extraction pass
\* met an item with text and without an author.
C9_AuthorlessLeftOut ==
    /\ pc = "returned"
    /\ no_author_seen
    /\ Len(comments) >= 2

\* C10: with a known target, no further tick starts once the recorded count
\* is at least 0.85 x target (the loop stops in the tick that reached it), and
\* the loop stops for the target only with a count of at least 0.85 x target.
C10_EarlyStop ==
    /\ (pc = "fb_tick" /\ target_comments > 0)
          => last_count * 100 < target_comments * TargetPercent
    /\ exit_reason = "target"
          => /\ target_comments > 0
             /\ last_count * 100 >= target_comments * TargetPercent

\* C10 witness: the loop stopped for the target after some ticks below it.
C10_TargetStop ==
    /\ exit_reason = "target"
    /\ iteration >= 2
    /\ last_count = MaxCount
\* C11: the loop stops for a stall only with a streak of unchanged counts at
\* the platform's stall threshold; and a tick whose count is lower than the
\* count of the tick before resets the streak and never ends the loop for a
\* stall (it goes on, or ends for the target or the ceiling).
C11_StallNeedsStreak ==
    /\ [](exit_reason = "stall" =>
            no_change_count >= (IF platform = "facebook" THEN FbStallThreshold
                                ELSE TtStallThreshold))
    /\ [][(/\ pc \in {"fb_count", "tt_count"}
            /\ pc' \in {"fb_tick", "tt_tick", "fb_expanded", "tt_expanded"}
            /\ last_count' < last_count)
           => (no_change_count' = 0 /\ exit_reason' # "stall")]_vars

\* C11 witness: the loop is about to run a further tick right after a tick
\* whose count fell to zero from a higher count.
C11_DecreaseSurvived ==
    /\ pc \in {"fb_tick", "tt_tick"}
    /\ iteration >= 2
    /\ last_count = 0
    /\ no_change_count = 0
GuardPollPcs == {"fb_login_poll", "tt_guard_poll"}

\* C12: the wait-for-login loop of either platform is bounded by its clock.
\* The elapsed time never passes max_wait by more than one poll; every poll
\* that stays in the loop starts before max_wait and spends at least one 2 s
\* interval; a poll entered at or after max_wait leaves the loop reporting
\* failure; and the loop is left towards the next stage only with the session
\* reported authenticated.
C12_GuardBounded ==
    /\ [](pc \in GuardPollPcs => elapsed < max_wait + 2 * PollSeconds)
    /\ [][(pc \in GuardPollPcs /\ pc' = pc) =>
            (elapsed < max_wait /\ elapsed' >= elapsed + PollSeconds)]_vars
    /\ [][(pc \in GuardPollPcs /\ elapsed >= max_wait) =>
            (pc' \in {"fb_login_failed", "tt_guard_failed"}
             /\ login_wait' = "timed_out")]_vars
    /\ [][(pc \in GuardPollPcs /\ pc' \in {"fb_renavigate", "tt_prepare"}) =>
            (authenticated' /\ login_wait' = "passed")]_vars

\* C12 witness: the TikTok guard used up its wait and scrape returned the
\* timeout.
C12_GuardTimedOut ==
    /\ platform = "tiktok"
    /\ pc = "returned"
    /\ login_wait = "timed_out"
    /\ error = "Login/captcha timeout"
\* C13 as the spec states it, for the three session checks: a captcha
\* indicator decides for captcha; a login indicator (a login form, a login
\* URL, a login button or prompt) decides against an authenticated session
\* whatever else the page shows; and a page showing no indicator of an
\* authenticated session is not classified as authenticated.
C13_PriorityFailSafe ==
    /\ call.fn = "_is_logged_in" =>
          /\ "login_form" \in call.arg.snapshot => call.result = FALSE
          /\ "login_url" \in call.arg.snapshot => call.result = FALSE
          /\ "logged_indicator" \notin call.arg.snapshot => call.result = FALSE
    /\ call.fn = "_check_session_valid" =>
          /\ "login_button" \in call.arg.snapshot => call.result = FALSE
          /\ "profile" \notin call.arg.snapshot => call.result = FALSE
    /\ call.fn = "status" =>
          /\ "captcha" \in call.arg.snapshot => call.result = "captcha"
          /\ call.arg.snapshot \cap TtLoginStatuses # {}
                => call.result # "logged_in"
          /\ "logged_in" \notin call.arg.snapshot => call.result # "logged_in"
\* C14 as the spec states it: on a URL that matches none of the platform's
\* identifier patterns, scrape touches no browser (it is still at its start
\* or has returned) and returns with error set.
UrlHasNoId ==
    IF platform = "facebook" THEN FbExtractPostId(url) = ""
    ELSE TtExtractVideoId(url) = ""

C14_InvalidUrlFailsFast ==
    UrlHasNoId => /\ pc \in {"start", "returned"}
                  /\ pc = "returned" => error # NoError
\* C15 as the spec states it: no surface operation that fails inside a tick
\* makes _expand_comments raise; its loop always ends by a break or by the
\* ceiling.
C15_EngineNeverRaises == exit_reason # "raised"
\* C16: a candidate whose parsing fails neither ends the extraction pass nor
\* sets error. On Facebook every step of the pass leaves error alone and goes
\* to the next article, to the end of the list; on TikTok the script's list
\* holds every wrapper accepted after a failing one, and the Python loop
\* leaves error alone; the returned comments hold at least the candidates
\* accepted after the first failure.
C16_FailingItemSkipped ==
    /\ [][pc = "fb_item" =>
            /\ error' = error
            /\ idx' = idx + 1
            /\ \/ pc' = "fb_item" /\ idx' < articles
               \/ pc' = "fb_close" /\ idx' = articles]_vars
    /\ [][pc = "tt_evaluate" =>
            /\ error' = error
            /\ pc' \in {"tt_item", "tt_save"}
            /\ Len(raw_comments') >= parse_hist'.kept_after]_vars
    /\ [][pc = "tt_item" =>
            error' = error /\ pc' \in {"tt_item", "tt_save"}]_vars
    /\ [](pc = "returned" /\ (platform = "facebook" \/ max_comments = 0)
            => Len(comments) >= parse_hist.kept_after)

\* C16 witness: a Facebook scrape returned without error and with a comment
\* accepted after an article whose handling had failed
C16_KeptAfterFailure ==
    /\ platform = "facebook" /\ pc = "returned" /\ error = NoError
    /\ parse_hist.failed >= 1 /\ parse_hist.kept_after >= 1
    /\ Len(comments) >= parse_hist.kept_after
\* where scrape stands right after a cookie read or write
AfterCookiePcs ==
    {"fb_new_page", "fb_renavigate", "fb_pre_check", "tt_page", "tt_close"}

\* the stage that follows the cookie read or write made at a position
CookieSuccessor(at) ==
    CASE at = "fb_launch" -> "fb_new_page"
      [] at = "fb_login_poll" -> "fb_renavigate"
      [] at = "fb_save_cookies" -> "fb_pre_check"
      [] at = "tt_launch" -> "tt_page"
      [] at = "tt_save" -> "tt_close"
      [] OTHER -> "none"

\* C17: a step in which _load_cookies or _save_cookies fails raises nothing,
\* leaves error as it was and takes scrape to the very stage that follows a
\* working read or write; the comments collected so far are kept.
C17_CookieFailureNonFatal ==
    /\ [][cookie_io' \notin {"none", "ok"} =>
            /\ pc' # "raised"
            /\ pc' = CookieSuccessor(pc)
            /\ error' = error
            /\ comments' = comments]_vars
    /\ [](cookie_io # "none" => pc \in AfterCookiePcs)

\* C17 witness: a TikTok scrape whose _save_cookies failed after comments
\* were extracted stands at its last stage with no error and its comments
C17_SaveFailedScrapeGoesOn ==
    /\ platform = "tiktok" /\ pc = "tt_close"
    /\ cookie_io = "failed"
    /\ error = NoError /\ Len(comments) >= 1
\* the unit whose row of the table holds the word
UnitOfWord(word) ==
    LET k == CHOOSE j \in 1..7 : Lower(word) \in TimePatterns[j].words
    IN TimePatterns[k].unit

\* C18 as the spec states it: for every token made of a number n and a unit
\* word of the table, parse_relative_time at T gives T - n * unit; "ayer"
\* gives T - 24 h; a string that holds no time gives T.
C18_RelativeTime ==
    call.fn = "parse_relative_time" =>
       /\ \A n \in 1..MaxNumber, spaces \in 0..1, word \in UnitWords :
             call.arg.time_str = TimeToken(n, spaces, word)
                => call.result
                     = call.arg.now - n * UnitSeconds(UnitOfWord(word))
       /\ call.arg.time_str = <<"a","y","e","r">>
             => call.result = call.arg.now - 86400
       /\ call.arg.time_str \in {<<>>, <<"x">>, <<"7">>}
             => call.result = call.arg.now
\* C19 as the spec states it: a number followed by K is its value times
\* 1000, followed by M its value times 1000000, a plain digit string its own
\* value; the result is never negative and a text that holds no count gives 0.
C19_ParseCount ==
    call.fn = "_parse_count" =>
       /\ \A whole \in CountWholes, decimal \in CountDecimals :
             LET tenths == whole * 10
                           + (IF decimal = <<>> THEN 0
                              ELSE DigitValue(decimal[2]))
             IN /\ call.arg.text = CountToken(<<>>, whole, decimal, <<"K">>)
                     => call.result = tenths * 100
                /\ call.arg.text = CountToken(<<>>, whole, decimal, <<"M">>)
                     => call.result = tenths * 100000
       /\ \A whole \in CountWholes :
             call.arg.text = NumberChars(whole) => call.result = whole
       /\ call.result >= 0
       /\ call.arg.text \in {<<>>, <<"x">>} => call.result = 0
\* C20: a TikTok scrape called with max_comments = n > 0 never holds more
\* than n comments; comment number i is built from raw item number i, so the
\* comments are the first raw items in the order the script met them; and
\* once the pass is over the list holds the first n raw items, or all of
\* them when there are fewer.
C20_MaxCommentsCap ==
    (platform = "tiktok" /\ max_comments > 0) =>
       /\ Len(comments) <= max_comments
       /\ Len(comments) <= Len(raw_comments)
       /\ \A i \in 1..Len(comments) :
             /\ comments[i].raw = raw_comments[i]
             /\ comments[i].text = raw_comments[i].text
       /\ pc \in {"tt_save", "tt_close", "returned"} =>
             Len(comments) = (IF Len(raw_comments) < max_comments
                              THEN Len(raw_comments) ELSE max_comments)

\* C20 witness: a TikTok scrape with max_comments = 2 returned exactly two
\* comments out of three raw items
C20_CutAtLimit ==
    /\ platform = "tiktok" /\ pc = "returned"
    /\ max_comments = 2
    /\ Len(raw_comments) = 3
    /\ Len(comments) = 2
\* C21 as the spec states it: a TikTok scrape called with include_replies =
\* False never runs a round of reply expansion and holds no comment whose
\* is_reply is true.
C21_RepliesLeftOut ==
    (platform = "tiktok" /\ ~include_replies) =>
       /\ pc # "tt_reply_round"
       /\ \A i \in 1..Len(comments) : ~comments[i].is_reply
\* C22 as the spec states it: at the end of every tick of either platform
\* the streak is 0 exactly when the tick's count is greater than the count of
\* the tick before, and one more than it was in every other case.
C22_StreakResetOnGrowthOnly ==
    [][(pc \in {"fb_count", "tt_count"} /\ exit_reason' # "raised") =>
         no_change_count' = (IF last_count' > last_count THEN 0
                             ELSE no_change_count + 1)]_vars
C24_ClicksPerTickCapped ==
    pc \in {"fb_count", "tt_count"} => clicks <= FbClickCap
\* C25: the Facebook expansion loop ends on a dead surface only on a tick
\* whose iteration is a positive multiple of 10, and it ends at the start of
\* that tick: nothing of the tick (clicks, count, streak) has changed and the
\* loop is left in the same step.
C25_LivenessEveryTenth ==
    /\ [](exit_reason = "dead" =>
            /\ platform = "facebook"
            /\ iteration > 0 /\ iteration % FbLivenessEvery = 0)
    /\ [][(exit_reason' = "dead" /\ exit_reason # "dead") =>
            /\ pc = "fb_tick" /\ pc' = "fb_expanded"
            /\ UNCHANGED <<iteration, clicks, last_count, no_change_count>>]_vars

\* C25 witness: the loop ended on a dead surface at its second health check
C25_DeadAtTwentieth ==
    /\ pc = "fb_expanded" /\ exit_reason = "dead"
    /\ iteration = 2 * FbLivenessEvery
\* C26 as the spec states it: on either platform reply expansion runs at
\* most 30 rounds, no round makes more than 5 clicks, and a round goes on to
\* the next one only after it made a click.
C26_ReplyExpansionBounded ==
    /\ round_num <= FbReplyRounds
    /\ expanded <= FbReplyClickCap
    /\ (pc \in {"fb_reply_round", "tt_reply_round"} /\ round_num > 0)
          => expanded > 0
\* C27: a pass of the TikTok guard's loop returns success only when its
\* status is logged_in and no captcha was pending; a pass whose status is
\* captcha, a login status, video_loaded or loading never returns success.
C27_SuccessOnlyWhenLoggedIn ==
    call.fn = "guard_poll" =>
       /\ call.result => /\ call.arg[1] = "logged_in"
                          /\ ~call.arg[3]
       /\ call.arg[1] \in ({"captcha", "video_loaded", "loading"}
                            \cup TtLoginStatuses)
             => ~call.result

\* C27 witness: a pass returned success
C27_PollSucceeded ==
    /\ call.fn = "guard_poll" /\ call.result
    /\ call.arg[1] = "logged_in" /\ call.arg[2] = "captcha"
\* C28 as the spec states it: on either platform the step in which the
\* session guard first finds the session authenticated saves the cookies, or
\* hands over to the stage that saves them before anything else is done.
C28_SavedWhenAuthenticated ==
    [][(authenticated' /\ ~authenticated) =>
         (cookie_io' # "none" \/ pc' = "fb_save_cookies")]_vars
C30_NoEmptyText ==
    \A i \in 1..Len(comments) : comments[i].text # <<>>

\* C31 as the spec states it: created_at is the item's absolute timestamp
\* when it has one, else the relative-time parse of its time text, and the
\* extraction instant only when it has neither - on both platforms.
C31_CreatedAtPriority ==
    /\ call.fn = "fb_created_at" =>
          LET absolute == SelectSeq(call.arg,
                             LAMBDA el : el.found /\ IntParses(el.utime))
              relative == SelectSeq(call.arg,
                             LAMBDA el : el.found /\ el.text # <<>>)
          IN call.result =
                IF absolute # <<>> THEN IntValue(absolute[1].utime)
                ELSE IF relative # <<>>
                THEN parse_relative_time(relative[1].text, Now)
                ELSE Now
    /\ call.fn = "tt_created_at" =>
          call.result = IF call.arg[1] = <<>> THEN Now
                        ELSE parse_relative_time(call.arg[1], Now)

\* C32 as the spec states it: every comment of the result has a non-empty
\* user id.
C32_AuthorIdResolved ==
    \A i \in 1..Len(comments) : comments[i].user.id # ""

\* C33 as the spec states it: two scrape tasks of one process never have
\* operations in flight on the same page.
C33_OneOperationPerSurface ==
    tasks # NoTasks =>
       \A a \in 1..2, b \in 1..2 :
          (a # b /\ tasks[a].pc = "in_flight" /\ tasks[b].pc = "in_flight")
             => tasks[a].page # tasks[b].page
\* C34: a returned result with an error has no comments: error is only ever
\* set while the comment list is empty, and a comment is only ever stored
\* while no error is set.
C34_ErrorMeansNoComments ==
    /\ []((pc = "returned" /\ error # NoError) => comments = <<>>)
    /\ [][error' # error => (comments = <<>> /\ comments' = <<>>)]_vars
    /\ [][(comments' # comments /\ comments' # <<>>)
            => (error = NoError /\ error' = NoError)]_vars

\* C34 witness: a Facebook scrape whose expansion had counted items when the
\* page died returned with an error and an empty comment list
C34_ErrorAfterItemsCounted ==
    /\ platform = "facebook" /\ pc = "returned"
    /\ error # NoError /\ comments = <<>>
    /\ expand_done /\ dead_items > 0
\* C35 as the spec states it: the expansion of a Facebook scrape works in a
\* modal only if a modal was detected during that scrape call.
C35_ModalOfThisScrape ==
    (platform = "facebook" /\ is_modal) => modal_seen
\* C36: in the Facebook expansion loop a tick that made an expand click never
\* takes the stall route: it re-measures nothing and does not end the loop as
\* stalled, however long the count has been unchanged. Short of a failing
\* wait, such a tick goes on to the next tick or ends the loop by the target
\* threshold or by max_iterations.
C36_StallNeedsIdleTick ==
    /\ [][(pc = "fb_count" /\ clicks > 0) =>
            /\ remeasured' = <<>>
            /\ exit_reason' # "stall"
            /\ \/ exit_reason' = "raised"
               \/ pc' = "fb_tick" /\ iteration' = iteration + 1
               \/ pc' = "fb_expanded" /\ exit_reason' \in {"target", "ceiling"}]_vars
    /\ [][(exit_reason' = "stall" /\ exit_reason # "stall") =>
            (pc = "fb_count" /\ clicks = 0) \/ platform = "tiktok"]_vars

\* C36 witness: the loop ran to max_iterations although the count had been
\* unchanged for the stall threshold of ticks, its last tick, past the
\* warm-up, having made a click
C36_ClickingTickRanOn ==
    /\ platform = "facebook" /\ pc = "fb_expanded"
    /\ exit_reason = "ceiling" /\ clicks > 0
    /\ no_change_count >= FbStallThreshold
    /\ iteration > FbWarmUp
\* C37: in TikTok reply expansion no button is clicked more than once: every
\* click of a round goes to a button never clicked before, which is then
\* counted among the marked ones, and marked buttons the page shows again are
\* passed over.
C37_RepliesClickedOnce ==
    /\ [](reply_buttons.again = 0)
    /\ [][pc = "tt_reply_round" =>
            /\ reply_buttons'.once = reply_buttons.once + expanded'
            /\ reply_buttons'.fresh + expanded' <= reply_buttons.fresh + 1]_vars

\* C37 witness: a later round clicked new buttons while passing over marked
\* ones that were visible again
C37_MarkedButtonSkipped ==
    /\ pc = "tt_reply_round" /\ round_num >= 2
    /\ expanded > 0 /\ reply_buttons.skipped > 0
    /\ reply_buttons.once > expanded
====
